---- MODULE Spec2Model ----
(***************************************************************************)
(* One run of the OpenDroneMap pipeline stage.                             *)
(*                                                                         *)
(* entrypoint.do_work drives a run: it loads the metadata file, derives    *)
(* the parameters (Transformer.get_transformer_params), asks the stage's   *)
(* check_continue, calls the stage's perform_process and hands the result  *)
(* to handle_result.  Two stage generations live in the repository:        *)
(* transformer.py (module-level functions) and odm.py (class               *)
(* Opendronemap).  odm.py is started by the agpypeline package, which is   *)
(* not part of the repository; here it runs under the lifecycle of         *)
(* entrypoint.py, the repository's own implementation of that lifecycle.   *)
(* A third, "generic" stage stands for any module the entry point can be   *)
(* given: its hooks may be missing and its check_continue may return any   *)
(* of the shapes parse_continue_result accepts.                            *)
(*                                                                         *)
(* The command line is parsed once (entrypoint.py:259) and never changes;  *)
(* each argument is bound in the step that first reads it.                 *)
(***************************************************************************)
EXTENDS Integers, Sequences, FiniteSets, TLC

VARIABLES
    pc,             \* position of the run inside do_work / perform_process
    stage,          \* which transformer module and instance the run uses
    metadata,       \* args.metadata: the path's state and the file's content
    file_list,      \* args.file_list
    odm_overrides,  \* args.odm_overrides: "none", "exists" or "missing"
    working_space,  \* args.working_space: "none" or "given"
    cwd_dirs,       \* names that are directories in the current directory
    params,         \* transformer_params as used by the stage
    check_return,   \* what check_continue returned
    result,         \* the result dictionary of the run
    calls,          \* how often each hook was invoked
    fs,             \* the project folder: images/ and the symbolic links
    engine,         \* the worker process started by run_stitch
    out,            \* what handle_result wrote
    raised,         \* the exception that left do_work, "none" otherwise
    scan,           \* the file loop of get_transformer_params, file by file
    pipe,           \* the worker's output pipe and the loop of run_stitch reading it
    exif            \* one "Exif" block and what exif_tags_to_timestamp made of it

run_vars == <<pc, stage, metadata, file_list, odm_overrides, working_space, cwd_dirs,
              params, check_return, result, calls, fs, engine, out, raised>>

vars == <<run_vars, scan, pipe, exif>>

\* Python's None where a string is expected.
NoneV == "<None>"

(***************************************************************************)
(* Bounds of the model.                                                    *)
(***************************************************************************)
\* Longest args.file_list.
MaxFiles == 2

\* Longest list of files the loop of get_transformer_params is followed
\* through file by file.
MaxScan == 3

\* Most lines the worker writes while run_stitch is followed line by line.
MaxLines == 3

\* Lines the pipe between the worker and run_stitch holds before a write
\* blocks.
PipeCapacity == 2

(***************************************************************************)
(* The files and folders a command line can name.  Strings are atomic      *)
(* here, so os.path.splitext, os.path.basename, str.lower, str.startswith  *)
(* os.path.isdir and os.listdir are given as tables over these paths.      *)
(***************************************************************************)
Paths == {"a/x.jpg", "b/x.jpg", "a/y.TIF", "a/z.Tiff", "a/gcp_list.txt", "a/notes.doc", "d",
          "-v.jpg"}

\* os.path.isdir(path): "d" is a folder; any other name is a folder when
\* the current directory holds a folder of that name.  A child of a listed
\* folder that is tested by its bare name is looked up in the current
\* directory, not in the folder it was listed from.
isdir(path, cwd) == path = "d" \/ path \in cwd

\* os.listdir, in the order the operating system reports: folder "d" holds
\* an image, a sub-folder named like an image, and a control point file.
ListDir(path) == IF path = "d" THEN <<"p.tiff", "sub.jpg", "gcp_list.txt">> ELSE <<>>

\* What a child of a listed folder really is: "sub.jpg" is a folder.
ChildIsDir(dir, name) == dir = "d" /\ name = "sub.jpg"

\* os.path.join(folder, name)
Join(dir, name) == dir \o "/" \o name

\* os.path.splitext(path)[1]
SplitExt(path) ==
    CASE path \in {"a/x.jpg", "b/x.jpg", "-v.jpg", "sub.jpg", "d/sub.jpg"} -> ".jpg"
      [] path = "a/y.TIF" -> ".TIF"
      [] path = "a/z.Tiff" -> ".Tiff"
      [] path \in {"a/gcp_list.txt", "gcp_list.txt", "d/gcp_list.txt"} -> ".txt"
      [] path = "a/notes.doc" -> ".doc"
      [] path \in {"p.tiff", "d/p.tiff"} -> ".tiff"
      [] OTHER -> ""

\* str.lower on the extensions above, with or without the leading dot.
Lower(ext) ==
    CASE ext = ".TIF" -> ".tif"
      [] ext = "TIF" -> "tif"
      [] ext = ".Tiff" -> ".tiff"
      [] ext = "Tiff" -> "tiff"
      [] OTHER -> ext

\* str.lstrip('.') on the extensions above.
LStripDot(ext) ==
    CASE ext = ".jpg" -> "jpg"
      [] ext = ".tif" -> "tif"
      [] ext = ".TIF" -> "TIF"
      [] ext = ".Tiff" -> "Tiff"
      [] ext = ".tiff" -> "tiff"
      [] ext = ".txt" -> "txt"
      [] ext = ".doc" -> "doc"
      [] OTHER -> ext

\* os.path.basename
BaseName(path) ==
    CASE path \in {"a/x.jpg", "b/x.jpg"} -> "x.jpg"
      [] path = "a/y.TIF" -> "y.TIF"
      [] path = "a/z.Tiff" -> "z.Tiff"
      [] path \in {"a/gcp_list.txt", "d/gcp_list.txt"} -> "gcp_list.txt"
      [] path = "a/notes.doc" -> "notes.doc"
      [] path = "d/p.tiff" -> "p.tiff"
      [] path = "d/sub.jpg" -> "sub.jpg"
      [] OTHER -> path

\* str.startswith('-')
StartsWithDash(path) == path = "-v.jpg"

\* All sequences over S of length at most n.
SeqsUpTo(S, n) == UNION {[1..k -> S] : k \in 0..n}

(***************************************************************************)
(* Values.  A Python value that may be None is a record with a "some"      *)
(* flag when it is an integer, and the string NoneV when it is a string.   *)
(***************************************************************************)
Some(v) == [some |-> TRUE, v |-> v]
NoneInt == [some |-> FALSE, v |-> 0]

\* A result dictionary: the keys it holds and their values.  The manifest
\* is stored under the key "files" or under the key "file".
EmptyDict == [keys |-> {}, code |-> 0, error |-> NoneV, message |-> NoneV, manifest |-> <<>>]

\* key in dict
Has(d, key) == key \in d.keys

\* Python's truth value of a string that may be None.
Truthy(str) == str # NoneV /\ str # ""

(***************************************************************************)
(* entrypoint.py                                                           *)
(***************************************************************************)
\* The path given with --metadata, when one is given.
MetadataPath == "md.json"

\* handle_error(code, message): code may be None, message None or empty.
handle_error(code, message) ==
    LET c == IF code.some THEN code.v ELSE -1
        m == IF Truthy(message) THEN message
             ELSE "An error has occurred with error code (" \o ToString(c) \o ")"
    IN  [EmptyDict EXCEPT !.keys = {"error", "code"}, !.error = m, !.code = c]

\* What the metadata file holds, as json.load sees it.  "object" and "array"
\* (an array whose first element is an object) carry a document.
ContentKinds == {"unreadable", "malformed", "null", "number", "string", "empty_array",
                 "object", "array"}

\* load_metadata(metadata_path): {'metadata': ...} or {'error': msg}.
\* Only a failed load and JSON null are refused.
load_metadata(kind) ==
    CASE kind \in {"unreadable", "malformed"} ->
            [keys |-> {"error"},
             error |-> "Unable to load metadata file \"" \o MetadataPath \o "\""]
      [] kind = "null" ->
            [keys |-> {"error"},
             error |-> "Invalid JSON specified in metadata file \"" \o MetadataPath \o "\""]
      [] OTHER -> [keys |-> {"metadata"}, error |-> NoneV]

\* The shapes check_continue can return: an int, a tuple of a code, a tuple
\* of a code and a message, a string, an empty tuple.
CheckCodes == {-1001, -1, 0, 1}
CheckMessages == {"", "no images"}
CheckShapes ==
    {[shape |-> "int", code |-> c, message |-> NoneV] : c \in CheckCodes}
    \cup {[shape |-> "tuple1", code |-> c, message |-> NoneV] : c \in CheckCodes}
    \cup {[shape |-> "tuple2", code |-> c, message |-> m] : c \in CheckCodes, m \in CheckMessages}
    \cup {[shape |-> "str", code |-> 0, message |-> "skip"],
          [shape |-> "empty", code |-> 0, message |-> NoneV]}

\* Before check_continue has returned.
NoReturn == [shape |-> "none", code |-> 0, message |-> NoneV]

\* parse_continue_result(result): (result_code, result_message), each may be None.
parse_continue_result(ret) ==
    CASE ret.shape = "int" -> [code |-> Some(ret.code), message |-> NoneV]
      [] ret.shape = "str" -> [code |-> NoneInt, message |-> NoneV]
      [] ret.shape = "tuple1" -> [code |-> Some(ret.code), message |-> NoneV]
      [] ret.shape = "tuple2" -> [code |-> Some(ret.code), message |-> ret.message]
      [] OTHER -> [code |-> NoneInt, message |-> NoneV]

\* handle_check_continue, after transformer.check_continue returned ret:
\* a code of 0 and an empty message are dropped.
handle_check_continue(ret) ==
    LET parsed == parse_continue_result(ret)
        withCode == IF parsed.code.some /\ parsed.code.v # 0
                    THEN [EmptyDict EXCEPT !.keys = {"code"}, !.code = parsed.code.v]
                    ELSE EmptyDict
    IN  IF Truthy(parsed.message)
        THEN [withCode EXCEPT !.keys = @ \cup {"message"}, !.message = parsed.message]
        ELSE withCode

\* Mutant of mark_check_error: the abort is recorded only when a message
\* came with the code, and the message becomes the error text.
mark_check_error_needs_message(res) ==
    IF Has(res, "code") /\ res.code < 0 /\ Has(res, "message")
    THEN [res EXCEPT !.keys = @ \cup {"error"}, !.error = res.message]
    ELSE res

\* perform_processing, lines 162-163: a negative code without an 'error'
\* key gets the fixed error text.
mark_check_error(res) ==
    IF Has(res, "code") /\ res.code < 0 /\ ~Has(res, "error")
    THEN [res EXCEPT !.keys = @ \cup {"error"},
                     !.error = "Unknown error returned from check_continue call"]
    ELSE res

\* Mutant of may_process: the gate of line 168 (a stored code of 0) in
\* front of perform_process.
may_process_like_prefetch(res) == ~Has(res, "error") /\ Has(res, "code") /\ res.code = 0

\* perform_processing, line 173: the gate in front of perform_process.
may_process(res) == ~Has(res, "error")

(***************************************************************************)
(* The metadata document.  A key that is missing holds Absent.             *)
(***************************************************************************)
Absent == "<absent>"

ObjNone == [observationTimeStamp |-> Absent, season |-> Absent, studyName |-> Absent,
            opendronemap |-> Absent]
ObjFull == [observationTimeStamp |-> "2020-02-01T00:00:00", season |-> "S1",
            studyName |-> "E1", opendronemap |-> "M1"]
ObjPart == [observationTimeStamp |-> Absent, season |-> "S2", studyName |-> Absent,
            opendronemap |-> "M2"]

\* A document: the top-level object, and the object under its 'content' key
\* when it has one.
Doc(top, nested, content) == [top |-> top, nested |-> nested, content |-> content]
Docs == {Doc(ObjNone, FALSE, ObjNone), Doc(ObjFull, FALSE, ObjNone), Doc(ObjPart, FALSE, ObjNone),
         Doc(ObjFull, TRUE, ObjPart), Doc(ObjPart, TRUE, ObjFull), Doc(ObjNone, TRUE, ObjNone)}

\* Before the document has been looked at.
NoDoc == Doc(ObjNone, FALSE, ObjNone)

\* dict.get with None for a missing key
Value(obj, key) == IF obj[key] = Absent THEN NoneV ELSE obj[key]

(***************************************************************************)
(* transformer_class.py: timestamps                                        *)
(***************************************************************************)
EXIF_ORIGINAL_TIMESTAMP == 36867
EXIF_TIMESTAMP_OFFSET == 36881
EXIF_ORIGINAL_TIMESTAMP_OFFSET == 36881

\* The tag the EXIF tag list names OffsetTime, the UTC offset that is not
\* bound to the capture: the number before OffsetTimeOriginal.  piexif.load
\* returns it under this number.
EXIF_OFFSET_TIME == 36880

\* A datetime, or None: wall-clock minutes since 2020-01-01T00:00, and the
\* UTC offset in minutes when the datetime is aware.
NoDatetime == [some |-> FALSE, t |-> 0, aware |-> FALSE, off |-> 0]
Datetime(t, aware, off) == [some |-> TRUE, t |-> t, aware |-> aware, off |-> off]

\* The wall-clock moments of this model: as an EXIF tag writes them and as
\* datetime.isoformat writes them.
Moments ==
    {[t |-> 13500, exif |-> "2020:01:10 09:00:00", iso |-> "2020-01-10T09:00:00"],
     [t |-> 16380, exif |-> "2020:01:12 09:00:00", iso |-> "2020-01-12T09:00:00"],
     [t |-> 16410, exif |-> "2020:01:12 09:30:00", iso |-> "2020-01-12T09:30:00"],
     [t |-> 20760, exif |-> "2020:01:15 10:00:00", iso |-> "2020-01-15T10:00:00"],
     [t |-> 44640, exif |-> "2020:02:01 00:00:00", iso |-> "2020-02-01T00:00:00"]}

\* The UTC offsets of this model: as an EXIF tag and isoformat write them,
\* and with the colon removed.
Offsets ==
    {[text |-> "+01:00", plain |-> "+0100", minutes |-> 60],
     [text |-> "-01:00", plain |-> "-0100", minutes |-> -60]}

\* The timestamp strings that hold a moment: an EXIF stamp, an EXIF stamp
\* followed by an offset without colon, an isoformat string without and
\* with an offset.  Any other string holds none.
TimestampTexts ==
    {[text |-> m.exif, style |-> "exif", t |-> m.t, suffix |-> "", minutes |-> 0] : m \in Moments}
    \cup {[text |-> m.exif \o o.plain, style |-> "exif", t |-> m.t, suffix |-> o.plain,
           minutes |-> o.minutes] : m \in Moments, o \in Offsets}
    \cup {[text |-> m.iso, style |-> "iso", t |-> m.t, suffix |-> "", minutes |-> 0] : m \in Moments}
    \cup {[text |-> m.iso \o o.text, style |-> "iso", t |-> m.t, suffix |-> o.text,
           minutes |-> o.minutes] : m \in Moments, o \in Offsets}

\* fromisoformat, lines 39-44: the date format picked from the characters
\* of the string.  A 'T' occurs in the isoformat strings only, a '-' in
\* them and in a negative offset.
base_format(row) ==
    IF row.style = "iso" THEN "%Y-%m-%dT%H:%M:%S"
    ELSE IF row.suffix \in {"-0100", "-01:00"} THEN "%Y-%m-%d %H:%M:%S"
    ELSE "%Y:%m:%d %H:%M:%S"

\* fromisoformat, line 47: '+' in timestamp, or the last '-' behind the
\* last ':'.  The last ':' of "...-01:00" is behind its '-'.
wants_offset(row) == row.suffix \in {"+0100", "+01:00"} \/ row.suffix = "-0100"

\* datetime.strptime(timestamp, format): the date part has to be written
\* as the format says, and %z has to meet an offset ("+0100" or "+01:00").
strptime_accepts(row, format, with_z) ==
    /\ \/ row.style = "iso" /\ format = "%Y-%m-%dT%H:%M:%S"
       \/ row.style = "exif" /\ format = "%Y:%m:%d %H:%M:%S"
    /\ with_z <=> row.suffix # ""

\* fromisoformat(timestamp): None for None, for an empty string and for a
\* string strptime refuses.
fromisoformat(timestamp) ==
    IF ~Truthy(timestamp) THEN NoDatetime
    ELSE IF ~\E row \in TimestampTexts : row.text = timestamp THEN NoDatetime
    ELSE LET row == CHOOSE r \in TimestampTexts : r.text = timestamp
         IN  IF strptime_accepts(row, base_format(row), wants_offset(row))
             THEN Datetime(row.t, row.suffix # "", row.minutes)
             ELSE NoDatetime

\* datetime.isoformat()
isoformat(dt) ==
    (CHOOSE m \in Moments : m.t = dt.t).iso
        \o (IF dt.aware THEN (CHOOSE o \in Offsets : o.minutes = dt.off).text ELSE "")

\* The "Exif" block of a file: tag numbers and their values.
NoTags ==
    [t \in {EXIF_ORIGINAL_TIMESTAMP, EXIF_ORIGINAL_TIMESTAMP_OFFSET, EXIF_TIMESTAMP_OFFSET,
            EXIF_OFFSET_TIME} |-> NoneV]
Tags(stamp, offset) ==
    [NoTags EXCEPT ![EXIF_ORIGINAL_TIMESTAMP] = stamp, ![EXIF_ORIGINAL_TIMESTAMP_OFFSET] = offset]

\* piexif.load(file_path): it raises for a file that is no image or cannot
\* be read; otherwise the "Exif" block, when the file has one, maps tag
\* numbers to values.
piexif_load(file_path) ==
    LET Image(tags) == [raises |-> FALSE, has_exif |-> TRUE, exif |-> tags]
    IN  CASE file_path = "a/x.jpg" -> Image(Tags("2020:01:15 10:00:00", NoneV))
          [] file_path = "b/x.jpg" -> Image(Tags("2020:01:10 09:00:00", NoneV))
          [] file_path = "a/y.TIF" -> Image(NoTags)
          [] file_path = "d/p.tiff" -> [raises |-> FALSE, has_exif |-> FALSE, exif |-> NoTags]
          [] file_path = "e/plus.jpg" -> Image(Tags("2020:01:12 09:30:00", "+01:00"))
          [] file_path = "e/late.jpg" -> Image(Tags("2020:02:01 00:00:00", "+01:00"))
          [] file_path = "e/minus.jpg" -> Image(Tags("2020:01:12 09:00:00", "-01:00"))
          [] file_path = "e/blank.jpg" -> Image(Tags("    :  :     :  :  ", "   :  "))
          [] file_path = "e/bad.jpg" -> Image(Tags("yesterday", NoneV))
          [] OTHER -> [raises |-> TRUE, has_exif |-> FALSE, exif |-> NoTags]

\* convert_and_clean_tag(value): None for a missing or empty value and for
\* one that holds only colons, dashes and blanks.
convert_and_clean_tag(value) ==
    IF value \in {NoneV, "", "    :  :     :  :  ", "   :  "} THEN NoneV ELSE value

\* str.replace(":", "") on the offsets of this model.
StripColons(offset) ==
    IF \E o \in Offsets : o.text = offset
    THEN (CHOOSE o \in Offsets : o.text = offset).plain
    ELSE offset

\* exif_tags_to_timestamp, lines 102-116: the string handed to
\* fromisoformat, None when the function returns before (line 105).
exif_timestamp_text(exif_tags) ==
    LET cur_stamp == convert_and_clean_tag(exif_tags[EXIF_ORIGINAL_TIMESTAMP])
        first_offset == convert_and_clean_tag(exif_tags[EXIF_ORIGINAL_TIMESTAMP_OFFSET])
        cur_offset == IF Truthy(first_offset) THEN first_offset
                      ELSE convert_and_clean_tag(exif_tags[EXIF_TIMESTAMP_OFFSET])
    IN  IF ~Truthy(cur_stamp) THEN NoneV
        ELSE IF ~Truthy(cur_offset) THEN cur_stamp
        ELSE cur_stamp \o StripColons(cur_offset)

\* exif_tags_to_timestamp(exif_tags)
exif_tags_to_timestamp(exif_tags) == fromisoformat(exif_timestamp_text(exif_tags))

\* cur_stamp < first_stamp: Python refuses to compare an aware datetime
\* with a naive one (TypeError); two aware ones are compared as instants.
CompareRaises(a, b) == a.aware # b.aware
Earlier(a, b) == IF a.aware THEN a.t - a.off < b.t - b.off ELSE a.t < b.t

\* get_first_timestamp, lines 134-138: the body of the try statement, with
\* the exception that ends it, if any.
first_timestamp_try(file_path, given) ==
    LET compare(cur_stamp) ==
            IF ~cur_stamp.some THEN [exc |-> "none", first_stamp |-> given]
            ELSE IF ~given.some THEN [exc |-> "none", first_stamp |-> cur_stamp]
            ELSE IF CompareRaises(cur_stamp, given)
            THEN [exc |-> "TypeError", first_stamp |-> given]
            ELSE [exc |-> "none",
                  first_stamp |-> IF Earlier(cur_stamp, given) THEN cur_stamp ELSE given]
        with_tags(loaded) ==
            IF loaded.raises THEN [exc |-> "InvalidImageDataError", first_stamp |-> given]
            ELSE IF ~loaded.has_exif THEN [exc |-> "none", first_stamp |-> given]
            ELSE compare(exif_tags_to_timestamp(loaded.exif))
    IN  with_tags(piexif_load(file_path))

\* Mutant of first_timestamp_outcome: no except clause around the body.
first_timestamp_outcome_uncaught(file_path, timestamp) ==
    LET after(body) ==
            [exc |-> body.exc,
             value |-> IF body.first_stamp.some THEN isoformat(body.first_stamp)
                       ELSE timestamp]
    IN  after(first_timestamp_try(file_path, fromisoformat(timestamp)))

\* get_first_timestamp, lines 132-146: "except Exception" ends every
\* exception of the body; the value returned.
first_timestamp_outcome(file_path, timestamp) ==
    LET after(body) ==
            [exc |-> "none",
             value |-> IF body.first_stamp.some THEN isoformat(body.first_stamp)
                       ELSE timestamp]
    IN  after(first_timestamp_try(file_path, fromisoformat(timestamp)))

\* get_first_timestamp(file_path, timestamp)
get_first_timestamp(file_path, timestamp) == first_timestamp_outcome(file_path, timestamp).value

(***************************************************************************)
(* transformer_class.py: Transformer                                       *)
(***************************************************************************)
supported_file_exts == {"tif", "tiff", "jpg", "txt"}

\* configuration.transformer_name
TRANSFORMER_NAME == "opendronemap"

RECURSIVE acceptable_children(_, _, _)
\* get_acceptable_files, lines 195-198: the children of one folder.
acceptable_children(dir, names, cwd) ==
    IF names = <<>> THEN <<>>
    ELSE LET name == Head(names)
             keep == ~isdir(name, cwd)
                     /\ Lower(LStripDot(SplitExt(name))) \in supported_file_exts
         IN  (IF keep THEN <<Join(dir, name)>> ELSE <<>>)
             \o acceptable_children(dir, Tail(names), cwd)

RECURSIVE get_acceptable_files(_, _)
\* Transformer.get_acceptable_files(files_folders)
get_acceptable_files(files_folders, cwd) ==
    IF files_folders = <<>> THEN <<>>
    ELSE LET one_path == Head(files_folders)
             found == IF isdir(one_path, cwd)
                      THEN acceptable_children(one_path, ListDir(one_path), cwd)
                      ELSE IF Lower(LStripDot(SplitExt(one_path))) \in supported_file_exts
                           THEN <<one_path>>
                           ELSE <<>>
         IN  found \o get_acceptable_files(Tail(files_folders), cwd)

RECURSIVE scan_files_always_looks(_, _, _)
\* Mutant of scan_files: every kept file is looked at, whether or not the
\* metadata came with a timestamp.
scan_files_always_looks(check_list, timestamp, working_timestamp) ==
    IF check_list = <<>>
    THEN [file_list |-> <<>>, working_timestamp |-> working_timestamp, consulted |-> <<>>]
    ELSE LET one_file == Head(check_list)
             kept == ~StartsWithDash(one_file)
             before(rest) ==
                [file_list |-> (IF kept THEN <<one_file>> ELSE <<>>) \o rest.file_list,
                 working_timestamp |-> rest.working_timestamp,
                 consulted |-> (IF kept THEN <<one_file>> ELSE <<>>) \o rest.consulted]
         IN  before(scan_files_always_looks(Tail(check_list), timestamp,
                        IF kept THEN get_first_timestamp(one_file, working_timestamp)
                        ELSE working_timestamp))

RECURSIVE scan_files(_, _, _)
\* get_transformer_params, lines 272-278: the files kept, the working
\* timestamp after the loop, and the files get_first_timestamp was
\* called with.
scan_files(check_list, timestamp, working_timestamp) ==
    IF check_list = <<>>
    THEN [file_list |-> <<>>, working_timestamp |-> working_timestamp, consulted |-> <<>>]
    ELSE LET one_file == Head(check_list)
             kept == ~StartsWithDash(one_file)
             looks == kept /\ timestamp = NoneV
             before(rest) ==
                [file_list |-> (IF kept THEN <<one_file>> ELSE <<>>) \o rest.file_list,
                 working_timestamp |-> rest.working_timestamp,
                 consulted |-> (IF looks THEN <<one_file>> ELSE <<>>) \o rest.consulted]
         IN  before(scan_files(Tail(check_list), timestamp,
                        IF looks THEN get_first_timestamp(one_file, working_timestamp)
                        ELSE working_timestamp))

\* What get_transformer_params hands to perform_processing: it returned a
\* value (a dictionary with these keys and entries, or something that is
\* no dictionary) or it raised.
NoParams ==
    [status |-> "none", exc |-> "none", is_dict |-> TRUE, keys |-> {}, code |-> 0,
     error |-> NoneV,
     timestamp |-> NoneV, season |-> NoneV, experiment |-> NoneV, transformer_md |-> NoneV,
     full_md |-> ObjNone, list_files |-> <<>>, working_folder |-> NoneV, consulted |-> <<>>]

ParamsRaised(exc) == [NoParams EXCEPT !.status = "raised", !.exc = exc]

\* args.working_space as a path
WorkingFolder(ws) == IF ws = "given" THEN "ws" ELSE NoneV

\* get_transformer_params, lines 249-303, on the object metadata_list[0].
params_from_object(doc, files, ws, cwd) ==
    LET parse_md == IF doc.nested THEN doc.content ELSE doc.top
        timestamp == Value(parse_md, "observationTimeStamp")
        after_scan(scanned) ==
            LET found == timestamp = NoneV /\ scanned.working_timestamp # NoneV
                final_ts == IF found THEN scanned.working_timestamp ELSE timestamp
                final_md == IF found
                            THEN [parse_md EXCEPT !.observationTimeStamp = final_ts]
                            ELSE parse_md
            IN  [NoParams EXCEPT
                    !.status = "returned",
                    !.keys = {"check_md", "transformer_md", "full_md"},
                    !.timestamp = final_ts,
                    !.season = Value(parse_md, "season"),
                    !.experiment = Value(parse_md, "studyName"),
                    !.transformer_md = Value(final_md, TRANSFORMER_NAME),
                    !.full_md = final_md,
                    !.list_files = scanned.file_list,
                    !.working_folder = WorkingFolder(ws),
                    !.consulted = scanned.consulted]
    IN  after_scan(IF files # <<>>
                   THEN scan_files(get_acceptable_files(files, cwd), timestamp, timestamp)
                   ELSE [file_list |-> <<>>, working_timestamp |-> timestamp,
                         consulted |-> <<>>])

\* Transformer.get_transformer_params(args, metadata_list).  metadata_list
\* is what json.load returned; metadata_list[0] raises KeyError on an
\* object, TypeError on a number, IndexError on an empty array, and is
\* the first character of a string: a str, in which no key is found
\* and which refuses the assignment of line 281.
get_transformer_params(kind, doc, files, ws, cwd) ==
    LET assigned(made) ==
            IF kind = "string" /\ made.timestamp # NoneV THEN ParamsRaised("TypeError")
            ELSE made
    IN  CASE kind = "object" -> ParamsRaised("KeyError")
          [] kind = "number" -> ParamsRaised("TypeError")
          [] kind = "empty_array" -> ParamsRaised("IndexError")
          [] OTHER -> assigned(params_from_object(IF kind = "string" THEN NoDoc ELSE doc,
                                                  files, ws, cwd))

(***************************************************************************)
(* transformer.py: the first stage generation                              *)
(***************************************************************************)
\* KNOWN_IMAGE_FILE_EXTS of transformer.py: no leading dot.
transformer_KNOWN_IMAGE_FILE_EXTS == <<"tif", "tiff", "jpg">>

\* The elements of a sequence.
Range(seq) == {seq[i] : i \in DOMAIN seq}

\* ", ".join(list)
RECURSIVE JoinComma(_)
JoinComma(seq) ==
    IF seq = <<>> THEN ""
    ELSE IF Len(seq) = 1 THEN seq[1]
    ELSE seq[1] \o ", " \o JoinComma(Tail(seq))

\* transformer.__internal__.check_for_image_file(path): inside a folder it
\* tests the extension of the folder's own path for every child that is
\* no directory of the current directory.
transformer_check_for_image_file(path, cwd) ==
    IF isdir(path, cwd)
    THEN \E i \in DOMAIN ListDir(path) :
            /\ ~isdir(ListDir(path)[i], cwd)
            /\ Lower(SplitExt(path)) \in Range(transformer_KNOWN_IMAGE_FILE_EXTS)
    ELSE Lower(SplitExt(path)) \in Range(transformer_KNOWN_IMAGE_FILE_EXTS)

\* A value check_continue returned, or the exception it raised.
ReturnInt(code) == [shape |-> "int", code |-> code, message |-> NoneV]
ReturnPair(code, message) == [shape |-> "tuple2", code |-> code, message |-> message]
ReturnRaise(exc) == [shape |-> "raise", code |-> 0, message |-> exc]

\* The path given with --odm_overrides, when one is given.
OverridesPath == "overrides.yaml"

OverridesMissingMessage ==
    "OpenDroneMap overrides specified but file is not available: '" \o OverridesPath \o "'"

NoImageMessage(exts) ==
    "Unable to find an image file in files to process. Accepting files types: '"
        \o JoinComma(exts) \o "'"

\* transformer.check_continue(transformer, check_md, transformer_md, full_md):
\* tuple(0) raises TypeError.
transformer_check_continue(overrides, list_files, cwd) ==
    IF overrides = "missing" THEN ReturnPair(-1000, OverridesMissingMessage)
    ELSE IF \E i \in DOMAIN list_files : transformer_check_for_image_file(list_files[i], cwd)
    THEN ReturnRaise("TypeError")
    ELSE ReturnPair(-1001, NoImageMessage(transformer_KNOWN_IMAGE_FILE_EXTS))

(***************************************************************************)
(* odm.py: the second stage generation                                     *)
(***************************************************************************)
KNOWN_IMAGE_FILE_EXTS == <<".tif", ".tiff", ".jpg">>
KNOWN_GCP_FILES == <<"gcp_list.txt">>

\* Mutant of check_for_image_file: the extension is compared as written.
check_for_image_file_as_written(path, cwd) ==
    IF isdir(path, cwd)
    THEN \E i \in DOMAIN ListDir(path) :
            /\ ~isdir(ListDir(path)[i], cwd)
            /\ SplitExt(ListDir(path)[i]) \in Range(KNOWN_IMAGE_FILE_EXTS)
    ELSE SplitExt(path) \in Range(KNOWN_IMAGE_FILE_EXTS)

\* odm.__internal__.check_for_image_file(path)
check_for_image_file(path, cwd) ==
    IF isdir(path, cwd)
    THEN \E i \in DOMAIN ListDir(path) :
            /\ ~isdir(ListDir(path)[i], cwd)
            /\ Lower(SplitExt(ListDir(path)[i])) \in Range(KNOWN_IMAGE_FILE_EXTS)
    ELSE Lower(SplitExt(path)) \in Range(KNOWN_IMAGE_FILE_EXTS)

\* odm.__internal__.check_gcp_file(path)
check_gcp_file(path) == BaseName(path) \in Range(KNOWN_GCP_FILES)

\* Mutant of check_continue: the image files are looked at before the
\* override file.
check_continue_images_first(overrides, list_files, cwd) ==
    IF \E i \in DOMAIN list_files : check_for_image_file(list_files[i], cwd)
    THEN ReturnInt(0)
    ELSE IF overrides = "missing" THEN ReturnPair(-1000, OverridesMissingMessage)
    ELSE ReturnPair(-1001, NoImageMessage(KNOWN_IMAGE_FILE_EXTS))

\* Opendronemap.check_continue(environment, check_md, transformer_md, full_md)
check_continue(overrides, list_files, cwd) ==
    IF overrides = "missing" THEN ReturnPair(-1000, OverridesMissingMessage)
    ELSE IF \E i \in DOMAIN list_files : check_for_image_file(list_files[i], cwd)
    THEN ReturnInt(0)
    ELSE ReturnPair(-1001, NoImageMessage(KNOWN_IMAGE_FILE_EXTS))

\* What prepare_project_folder's first loop finds: the image files in
\* order, and the control point file seen last.
RECURSIVE classify_children(_, _, _, _)
classify_children(dir, names, cwd, acc) ==
    IF names = <<>> THEN acc
    ELSE LET file_name == Head(names)
             next == IF isdir(file_name, cwd) THEN acc
                     ELSE IF check_for_image_file(file_name, cwd)
                     THEN [acc EXCEPT !.file_list = Append(@, Join(dir, file_name))]
                     ELSE IF check_gcp_file(file_name)
                     THEN [acc EXCEPT !.gcp_file = Join(dir, file_name)]
                     ELSE acc
         IN  classify_children(dir, Tail(names), cwd, next)

RECURSIVE classify_listed_only(_, _, _)
\* Mutant of classify: a folder of the list is not looked into.
classify_listed_only(files, cwd, acc) ==
    IF files = <<>> THEN acc
    ELSE LET one_file == Head(files)
             next == IF isdir(one_file, cwd) THEN acc
                     ELSE IF check_for_image_file(one_file, cwd)
                     THEN [acc EXCEPT !.file_list = Append(@, one_file)]
                     ELSE IF check_gcp_file(one_file)
                     THEN [acc EXCEPT !.gcp_file = one_file]
                     ELSE acc
         IN  classify_listed_only(Tail(files), cwd, next)

RECURSIVE classify(_, _, _)
\* prepare_project_folder, lines 106-119
classify(files, cwd, acc) ==
    IF files = <<>> THEN acc
    ELSE LET one_file == Head(files)
             next == IF isdir(one_file, cwd)
                     THEN classify_children(one_file, ListDir(one_file), cwd, acc)
                     ELSE IF check_for_image_file(one_file, cwd)
                     THEN [acc EXCEPT !.file_list = Append(@, one_file)]
                     ELSE IF check_gcp_file(one_file)
                     THEN [acc EXCEPT !.gcp_file = one_file]
                     ELSE acc
         IN  classify(Tail(files), cwd, next)

\* The project folder before staging: no images/ folder, no links.  The
\* links a folder held when staging began are kept beside the links it
\* holds now.
EmptyFolder ==
    [images_dir |-> FALSE, images |-> {}, root |-> {}, exc |-> "none",
     old_images |-> {}, old_root |-> {}]

\* The project folder after an earlier run was staged in the same working
\* space: images/ exists (line 101) and holds that run's links.
EarlierStaging ==
    [EmptyFolder EXCEPT
        !.images_dir = TRUE,
        !.images = {[name |-> "x.jpg", target |-> "a/x.jpg"]},
        !.root = {[name |-> "gcp_list.txt", target |-> "a/gcp_list.txt"]},
        !.old_images = {[name |-> "x.jpg", target |-> "a/x.jpg"]},
        !.old_root = {[name |-> "gcp_list.txt", target |-> "a/gcp_list.txt"]}]

\* What the working space can hold when staging begins.
FolderChoices(default_folder) ==
    IF default_folder = NoneV THEN {EmptyFolder} ELSE {EmptyFolder, EarlierStaging}

\* os.symlink(target, folder/name): FileExistsError when the name is taken.
Taken(links, name) == \E l \in links : l.name = name

RECURSIVE link_images_overwrite(_, _)
\* Mutant of link_images: a name that is taken is linked anew (ln -sf).
link_images_overwrite(found_files, folder) ==
    IF found_files = <<>> THEN folder
    ELSE LET one_file == Head(found_files)
             filename == BaseName(one_file)
         IN  link_images_overwrite(Tail(found_files),
                 [folder EXCEPT !.images = {l \in @ : l.name # filename}
                                            \cup {[name |-> filename, target |-> one_file]}])

RECURSIVE link_images(_, _)
\* prepare_project_folder, lines 122-127: the loop stops at the first
\* os.symlink that raises; the links made before it stay.
link_images(found_files, folder) ==
    IF found_files = <<>> THEN folder
    ELSE LET one_file == Head(found_files)
             filename == BaseName(one_file)
         IN  IF Taken(folder.images, filename)
             THEN [folder EXCEPT !.exc = "FileExistsError"]
             ELSE link_images(Tail(found_files),
                      [folder EXCEPT !.images = @ \cup {[name |-> filename, target |-> one_file]}])

\* prepare_project_folder, lines 130-135
link_gcp(gcp_file, folder) ==
    IF folder.exc # "none" \/ gcp_file = NoneV THEN folder
    ELSE IF Taken(folder.root, BaseName(gcp_file))
    THEN [folder EXCEPT !.exc = "FileExistsError"]
    ELSE [folder EXCEPT !.root = @ \cup {[name |-> BaseName(gcp_file), target |-> gcp_file]}]

\* odm.__internal__.prepare_project_folder(files, default_folder): the
\* folder afterwards, with the exception that ended it, if any.
\* os.path.join(None, 'images') raises TypeError.
prepare_project_folder(files, default_folder, cwd, folder) ==
    IF default_folder = NoneV THEN [folder EXCEPT !.exc = "TypeError"]
    ELSE LET found == classify(files, cwd, [file_list |-> <<>>, gcp_file |-> NoneV])
             with_dir == [folder EXCEPT !.images_dir = TRUE]
         IN  link_gcp(found.gcp_file, link_images(found.file_list, with_dir))

\* RESULT_FILES of odm.py, in the order a dictionary is iterated.
RESULT_FILES ==
    <<[folder |-> "odm_orthophoto", name |-> "odm_orthophoto.tif", type |-> "rgb"],
      [folder |-> "odm_georeferencing", name |-> "odm_georeferenced_model.laz", type |-> "lidar"],
      [folder |-> "odm_georeferencing", name |-> "odm_georeferenced_model.bounds.shp", type |-> "shapefile"],
      [folder |-> "odm_georeferencing", name |-> "odm_georeferenced_model.bounds.dbf", type |-> "shapefile"],
      [folder |-> "odm_georeferencing", name |-> "odm_georeferenced_model.bounds.prj", type |-> "shapefile"],
      [folder |-> "odm_georeferencing", name |-> "odm_georeferenced_model.bounds.shx", type |-> "shapefile"],
      [folder |-> "odm_georeferencing", name |-> "proj.txt", type |-> "shapefile"],
      [folder |-> "odm_georeferencing", name |-> "odm_georeferenced_model.bounds.geojson", type |-> "shapefile"],
      [folder |-> "odm_georeferencing", name |-> "odm_georeferenced_model.boundary.json", type |-> "shapefile"],
      [folder |-> "mve", name |-> "mve_dense_point_cloud.ply", type |-> "pointcloud"],
      [folder |-> "odm_dem", name |-> "dsm.tif", type |-> "dsm"],
      [folder |-> "odm_dem", name |-> "dtm.tif", type |-> "dtm"]>>

\* The result files the engine can leave behind, as entries of RESULT_FILES.
DiskOutcomes == {{}, {2, 3, 11, 12}, DOMAIN RESULT_FILES}

\* The exit statuses of the worker process; a negative status is the
\* signal that killed it.
ExitStatuses == {-9, 0, 1}

\* The rows of RESULT_FILES with the sub-folders in alphabetical order.
SortedFolders == <<10, 11, 12, 2, 3, 4, 5, 6, 7, 8, 9, 1>>

RECURSIVE collect_from_sorted(_, _, _)
\* Mutant of collect_from: the sub-folders are gone through in sorted order.
collect_from_sorted(i, project_path, disk) ==
    IF i > Len(RESULT_FILES) THEN <<>>
    ELSE LET one_file == RESULT_FILES[SortedFolders[i]]
             cur_path == Join(Join(project_path, one_file.folder), one_file.name)
         IN  (IF SortedFolders[i] \in disk
              THEN <<[path |-> cur_path, key |-> one_file.type]>> ELSE <<>>)
             \o collect_from_sorted(i + 1, project_path, disk)

RECURSIVE collect_from(_, _, _)
\* Opendronemap.perform_process, lines 270-281
collect_from(i, project_path, disk) ==
    IF i > Len(RESULT_FILES) THEN <<>>
    ELSE LET one_file == RESULT_FILES[i]
             cur_path == Join(Join(project_path, one_file.folder), one_file.name)
         IN  (IF i \in disk THEN <<[path |-> cur_path, key |-> one_file.type]>> ELSE <<>>)
             \o collect_from(i + 1, project_path, disk)

collect_files(project_path, disk) == collect_from(1, project_path, disk)

\* Opendronemap.perform_process, lines 283-285: the returned dictionary.
perform_process_result(files_md, stitch_code) ==
    [EmptyDict EXCEPT !.keys = {"file", "code"}, !.manifest = files_md, !.code = stitch_code]

\* transformer.perform_process, lines 186-188: the returned dictionary.
transformer_perform_process_result(files_md) ==
    [EmptyDict EXCEPT !.keys = {"files", "code"}, !.manifest = files_md, !.code = 0]

\* The worker process before run_stitch starts it.
NoEngine ==
    [launched |-> FALSE, exited |-> FALSE, status |-> 0, disk |-> {},
     environ |-> [ODM_PROJECT |-> NoneV, ODM_SETTINGS |-> NoneV],
     ODM_PROJECT |-> NoneV, ODM_SETTINGS |-> NoneV, return_value |-> NoneInt,
     settings |-> {}, applied |-> {}, project_path |-> NoneV, warnings |-> <<>>]

\* run_stitch, lines 170-176: the environment of the worker.
\* os.environ of the run, as far as the worker reads it: the caller may
\* have set neither name, or both.
CallerEnvironments ==
    {[ODM_PROJECT |-> NoneV, ODM_SETTINGS |-> NoneV],
     [ODM_PROJECT |-> "elsewhere", ODM_SETTINGS |-> "caller.yaml"]}

\* run_stitch, lines 170-176: the environment of the worker, a copy of
\* os.environ in which ODM_PROJECT is set, and ODM_SETTINGS when an
\* override path is given.
worker_env(environ, project_path, override_path) ==
    [ODM_PROJECT |-> project_path,
     ODM_SETTINGS |-> IF Truthy(override_path) THEN override_path ELSE environ.ODM_SETTINGS]

(***************************************************************************)
(* worker.py, and get_merge_options of transformer.py                      *)
(***************************************************************************)
\* NO_OVERRIDE_SETTINGS of worker.py and of transformer.py
NO_OVERRIDE_SETTINGS == {"project_path"}

\* The names an override file can set, as yaml.safe_load returns them: a
\* file may set nothing, an ODM option, or an option and the project path.
OverrideSettings == {{}, {"dsm"}, {"dsm", "project_path"}}

\* What the override file of this run holds; nothing is read when the
\* worker is given no ODM_SETTINGS.
SettingsChoices(arg_file) == IF Truthy(arg_file) THEN OverrideSettings ELSE {{}}

\* worker.perform_work, lines 24-50: the names set on the ODM arguments,
\* the project path the engine is run with, and the warnings written.
\* A name of NO_OVERRIDE_SETTINGS is passed over without a word.
perform_work(arg_file, project_path, new_settings) ==
    [applied |-> IF Truthy(arg_file) THEN new_settings \ NO_OVERRIDE_SETTINGS ELSE {},
     project_path |-> project_path,
     warnings |-> <<>>]

\* logging.warning of get_merge_options, line 91
SkipWarning(name) == "Skipping disallowed configuration value for " \o name

\* transformer.__internal__.get_merge_options(path), lines 77-92, and the
\* assignment of the staged folder to project_path in perform_process.
get_merge_options(path, project_path, new_settings) ==
    [applied |-> IF Truthy(path) THEN new_settings \ NO_OVERRIDE_SETTINGS ELSE {},
     project_path |-> project_path,
     warnings |-> IF Truthy(path) /\ "project_path" \in new_settings
                  THEN <<SkipWarning("project_path")>> ELSE <<>>]

\* Mutant of stitch_return_value: the default of line 191 stands for
\* every failure.
stitch_return_value_default(returncode) == Some(IF returncode = 0 THEN 0 ELSE -1)

\* run_stitch, lines 191-206: the value returned once the process is over.
stitch_return_value(returncode) == Some(returncode)

(***************************************************************************)
(* entrypoint.py: handle_result                                            *)
(***************************************************************************)
\* The values of --result: absent (None), and comma separated lists.
ResultTypes == {NoneV, "all", "print", "print, file", "bogus,file", "none"}

\* [one_type.strip() for one_type in result_types.split(',')]
TypeParts(result_types) ==
    CASE result_types = "print, file" -> {"print", "file"}
      [] result_types = "bogus,file" -> {"bogus", "file"}
      [] OTHER -> {result_types}

\* Nothing printed, nothing written: handle_result has not been called.
NoOutput ==
    [handled |-> 0, result_types |-> NoneV, dir_existed |-> TRUE, printed |-> <<>>,
     written |-> <<>>, skipped_file |-> FALSE, made_dirs |-> FALSE, returned |-> EmptyDict]

\* Mutant of handle_result: the value of --result is compared as a whole.
handle_result_whole_value(result_types, result_file_path, dir_exists, res) ==
    LET to_print == result_types \in {"print", "all"}
        to_file == result_types \in {"file", "all"}
        writes == to_file /\ Truthy(result_file_path)
    IN  [handled |-> 1,
         result_types |-> result_types,
         dir_existed |-> dir_exists,
         printed |-> IF to_print THEN <<res>> ELSE <<>>,
         written |-> IF writes THEN <<res>> ELSE <<>>,
         skipped_file |-> to_file /\ ~Truthy(result_file_path),
         made_dirs |-> writes /\ ~dir_exists,
         returned |-> res]

\* handle_result(result_types, result_file_path, result): what it prints,
\* what it writes to result_file_path, whether it had to make the folder
\* of that path (dir_exists: the folder was there), and what it returns.
handle_result(result_types, result_file_path, dir_exists, res) ==
    LET parts == IF result_types = NoneV THEN {} ELSE TypeParts(result_types)
        to_print == "print" \in parts \/ "all" \in parts
        to_file == "file" \in parts \/ "all" \in parts
        writes == to_file /\ Truthy(result_file_path)
    IN  [handled |-> 1,
         result_types |-> result_types,
         dir_existed |-> dir_exists,
         printed |-> IF to_print THEN <<res>> ELSE <<>>,
         written |-> IF writes THEN <<res>> ELSE <<>>,
         skipped_file |-> to_file /\ ~Truthy(result_file_path),
         made_dirs |-> writes /\ ~dir_exists,
         returned |-> res]

(***************************************************************************)
(* The run                                                                 *)
(***************************************************************************)
\* The stage a run uses.  The two generations define every hook; a
\* generic stage may lack any of them.
ConcreteStage(module) ==
    [module |-> module, has_params |-> TRUE, has_check |-> TRUE, has_perform |-> TRUE]
Stages ==
    {ConcreteStage("transformer"), ConcreteStage("odm")}
    \cup {[module |-> "generic", has_params |-> p, has_check |-> c, has_perform |-> f] :
            p \in BOOLEAN, c \in BOOLEAN, f \in BOOLEAN}

\* The folders the current directory may hold.
CwdChoices == {{}, {"p.tiff"}, {"gcp_list.txt"}}

\* The current directory is looked at for the children of a listed folder
\* only: without one in the list, what it holds is never read.
CwdRead(files) ==
    IF \E i \in DOMAIN files : ListDir(files[i]) # <<>> THEN CwdChoices ELSE {{}}

\* What a generic instance's get_transformer_params can return: a
\* dictionary of parameters, something that is no dictionary, a
\* dictionary with 'code' and 'error', with an empty 'error', or with
\* 'code' alone.
GenericParams ==
    {[NoParams EXCEPT !.status = "returned"],
     [NoParams EXCEPT !.status = "returned", !.is_dict = FALSE],
     [NoParams EXCEPT !.status = "returned", !.keys = {"code", "error"}, !.code = -7,
               !.error = "bad sensor"],
     [NoParams EXCEPT !.status = "returned", !.keys = {"code", "error"}, !.code = -7, !.error = ""],
     [NoParams EXCEPT !.status = "returned", !.keys = {"code"}, !.code = -7]}

\* What a generic stage's perform_process can return.
GenericResults ==
    {[EmptyDict EXCEPT !.keys = {"files", "code"}, !.code = 0],
     [EmptyDict EXCEPT !.keys = {"error", "code"}, !.code = -5, !.error = "failed"]}

\* The files whose embedded metadata the loop may be given: the image and
\* text files of Paths, and images with an offset tag, with blank tags and
\* with a capture tag that holds no date.
StampFiles == {"a/x.jpg", "b/x.jpg", "a/y.TIF", "d/p.tiff", "a/gcp_list.txt",
               "e/plus.jpg", "e/late.jpg", "e/minus.jpg", "e/blank.jpg", "e/bad.jpg"}

\* The loop before it is entered.
NoScan == [files |-> <<>>, pos |-> 0, before |-> NoneV, working_timestamp |-> NoneV,
           exc |-> "none"]

\* What the worker writes to its standard output and standard error, line
\* by line: text, or bytes that are no UTF-8.
LineKinds == {"text", "not_utf8"}

\* Before subprocess.Popen: no worker, no pipe, return_value unset.
NoPipe ==
    [worker |-> "none", status |-> 0, to_write |-> <<>>, written |-> <<>>, buffer |-> <<>>,
     rpc |-> "none", returncode |-> NoneInt, return_value |-> NoneInt,
     log |-> <<>>, ignored |-> 0]

\* No "Exif" block looked at yet.
NoExif == [tags |-> NoTags, done |-> FALSE, text |-> NoneV, parsed |-> NoDatetime]

Init ==
    /\ pc = "start"
    /\ stage \in Stages
    /\ metadata = [arg |-> "unset", kind |-> "unset", doc |-> NoDoc]
    /\ file_list = <<>>
    /\ odm_overrides = "unset"
    /\ working_space = "unset"
    /\ cwd_dirs = {}
    /\ params = NoParams
    /\ check_return = NoReturn
    /\ result = EmptyDict
    /\ calls = [params |-> 0, check |-> 0, perform |-> 0]
    /\ fs = EmptyFolder
    /\ engine = NoEngine
    /\ out = NoOutput
    /\ raised = "none"
    /\ scan = NoScan
    /\ pipe = NoPipe
    /\ exif = NoExif

\* do_work, lines 264-274: the metadata argument.
do_work_metadata ==
    /\ pc = "start"
    /\ \E arg \in {"none", "missing", "given"} :
       \E kind \in (IF arg = "given" THEN ContentKinds ELSE {"unset"}) :
          LET md_result == load_metadata(kind)
          IN  /\ metadata' = [metadata EXCEPT !.arg = arg, !.kind = kind]
              /\ CASE arg = "none" ->
                        /\ result' = handle_error(Some(-1), "No metadata path was specified.")
                        /\ pc' = "handle_result"
                   [] arg = "missing" ->
                        /\ result' = handle_error(Some(-2),
                                "Unable to access metadata file '" \o MetadataPath \o "'")
                        /\ pc' = "handle_result"
                   [] OTHER ->
                        IF Has(md_result, "metadata")
                        THEN /\ result' = result
                             /\ pc' = "get_params"
                        ELSE /\ result' = handle_error(Some(-3), md_result.error)
                             /\ pc' = "handle_result"
    /\ UNCHANGED <<stage, file_list, odm_overrides, working_space, cwd_dirs, params,
                   check_return, calls, fs, engine, out, raised>>
    /\ UNCHANGED <<scan, pipe, exif>>

\* perform_processing, lines 146-154: what becomes of a returned value.
params_error(p) ==
    IF ~p.is_dict
    THEN handle_error(Some(-101),
            "Invalid return from getting transformer parameters from transformer class instance")
    ELSE IF Has(p, "error") THEN handle_error(Some(-101), p.error)
    ELSE handle_error(Some(-101),
            "Error returned from get_transformer_params with code: " \o ToString(p.code))

params_rejected(p) == ~p.is_dict \/ Has(p, "code")

\* perform_processing, lines 143-157: the parameters.  odm.py gets its
\* parameters from the agpypeline environment: the file list of the
\* command line and the working space, as they are.
perform_processing_params ==
    /\ pc = "get_params"
    /\ IF ~stage.has_params
       THEN /\ params' = [NoParams EXCEPT !.status = "skipped"]
            /\ pc' = "check"
            /\ UNCHANGED <<metadata, file_list, working_space, cwd_dirs, calls, result, raised>>
       ELSE /\ calls' = [calls EXCEPT !.params = @ + 1]
            /\ IF stage.module = "generic"
               THEN /\ params' \in GenericParams
                    /\ UNCHANGED <<metadata, file_list, working_space, cwd_dirs>>
               ELSE /\ file_list' \in SeqsUpTo(Paths, MaxFiles)
                    /\ working_space' \in {"none", "given"}
                    /\ cwd_dirs' \in CwdRead(file_list')
                    /\ \E doc \in (IF stage.module = "transformer"
                                       /\ metadata.kind \in {"object", "array"}
                                    THEN Docs ELSE {NoDoc}) :
                          /\ metadata' = [metadata EXCEPT !.doc = doc]
                          /\ params' =
                                IF stage.module = "transformer"
                                THEN get_transformer_params(metadata.kind, doc, file_list',
                                                            working_space', cwd_dirs')
                                ELSE [NoParams EXCEPT
                                        !.status = "returned",
                                        !.keys = {"check_md", "transformer_md", "full_md"},
                                        !.list_files = file_list',
                                        !.working_folder = WorkingFolder(working_space')]
            /\ IF params'.status = "raised"
               THEN /\ raised' = params'.exc
                    /\ pc' = "raised"
                    /\ result' = result
               ELSE IF params_rejected(params')
               THEN /\ result' = params_error(params')
                    /\ pc' = "handle_result"
                    /\ raised' = raised
               ELSE /\ pc' = "check"
                    /\ UNCHANGED <<result, raised>>
    /\ UNCHANGED <<stage, odm_overrides, check_return, fs, engine, out>>
    /\ UNCHANGED <<scan, pipe, exif>>

\* perform_processing, lines 159-165: the feasibility check.
perform_processing_check ==
    /\ pc = "check"
    /\ IF ~stage.has_check
       THEN /\ pc' = "process"
            /\ UNCHANGED <<odm_overrides, check_return, result, calls, raised>>
       ELSE /\ calls' = [calls EXCEPT !.check = @ + 1]
            /\ IF stage.module = "generic"
               THEN /\ check_return' \in CheckShapes
                    /\ UNCHANGED odm_overrides
               ELSE /\ odm_overrides' \in {"none", "exists", "missing"}
                    /\ check_return' =
                          IF stage.module = "transformer"
                          THEN transformer_check_continue(odm_overrides', params.list_files, cwd_dirs)
                          ELSE check_continue(odm_overrides', params.list_files, cwd_dirs)
            /\ IF check_return'.shape = "raise"
               THEN /\ raised' = check_return'.message
                    /\ pc' = "raised"
                    /\ result' = result
               ELSE /\ result' = mark_check_error(handle_check_continue(check_return'))
                    /\ pc' = "process"
                    /\ raised' = raised
    /\ UNCHANGED <<stage, metadata, file_list, working_space, cwd_dirs, params, fs, engine, out>>
    /\ UNCHANGED <<scan, pipe, exif>>

\* perform_processing, lines 172-181: the call of perform_process.
\* transformer.perform_process joins paths with the tuple tempfile.mkstemp
\* returns, which raises TypeError; a generic stage returns a result.
perform_processing_process ==
    /\ pc = "process"
    /\ IF ~may_process(result)
       THEN /\ pc' = "handle_result"
            /\ UNCHANGED <<result, calls, raised>>
       ELSE IF ~stage.has_perform
       THEN /\ result' = handle_error(Some(-102),
                    "Transformer perform_process interface is not available for processing data")
            /\ pc' = "handle_result"
            /\ UNCHANGED <<calls, raised>>
       ELSE /\ calls' = [calls EXCEPT !.perform = @ + 1]
            /\ CASE stage.module = "odm" ->
                      /\ pc' = "prepare"
                      /\ UNCHANGED <<result, raised>>
                 [] stage.module = "transformer" ->
                      /\ pc' = "raised"
                      /\ raised' = "TypeError"
                      /\ result' = result
                 [] OTHER ->
                      /\ result' \in GenericResults
                      /\ pc' = "handle_result"
                      /\ raised' = raised
    /\ UNCHANGED <<stage, metadata, file_list, odm_overrides, working_space, cwd_dirs, params,
                   check_return, fs, engine, out>>
    /\ UNCHANGED <<scan, pipe, exif>>

\* Opendronemap.perform_process, line 263: staging.
perform_process_prepare ==
    /\ pc = "prepare"
    /\ \E folder \in FolderChoices(params.working_folder) :
          fs' = prepare_project_folder(params.list_files, params.working_folder, cwd_dirs, folder)
    /\ IF fs'.exc # "none"
       THEN /\ raised' = fs'.exc
            /\ pc' = "raised"
       ELSE /\ pc' = "run_stitch"
            /\ raised' = raised
    /\ UNCHANGED <<stage, metadata, file_list, odm_overrides, working_space, cwd_dirs, params,
                   check_return, result, calls, engine, out>>
    /\ UNCHANGED <<scan, pipe, exif>>

\* args.odm_overrides as a path
OverridePath(overrides) == IF overrides = "none" THEN NoneV ELSE OverridesPath

\* run_stitch, lines 169-188: subprocess.Popen starts the worker, or
\* raises OSError when the script cannot be started.
run_stitch_launch ==
    /\ pc = "run_stitch"
    /\ \/ /\ \E environ \in CallerEnvironments :
                LET my_env == worker_env(environ, params.working_folder,
                                         OverridePath(odm_overrides))
                IN  engine' = [engine EXCEPT
                                    !.launched = TRUE,
                                    !.environ = environ,
                                    !.ODM_PROJECT = my_env.ODM_PROJECT,
                                    !.ODM_SETTINGS = my_env.ODM_SETTINGS]
          /\ pc' = "wait"
          /\ raised' = raised
       \/ /\ raised' = "OSError"
          /\ pc' = "raised"
          /\ engine' = engine
    /\ UNCHANGED <<stage, metadata, file_list, odm_overrides, working_space, cwd_dirs, params,
                   check_return, result, calls, fs, out>>
    /\ UNCHANGED <<scan, pipe, exif>>

\* run_stitch, lines 191-206, and worker.perform_work: the worker applies
\* the override file, runs the engine, leaves its result files and ends
\* with an exit status; run_stitch returns once proc.returncode is set.
run_stitch_wait ==
    /\ pc = "wait"
    /\ \E status \in ExitStatuses, disk \in DiskOutcomes,
          new_settings \in SettingsChoices(engine.ODM_SETTINGS) :
          LET work == perform_work(engine.ODM_SETTINGS, engine.ODM_PROJECT, new_settings)
          IN  engine' = [engine EXCEPT !.exited = TRUE, !.status = status, !.disk = disk,
                                       !.return_value = stitch_return_value(status),
                                       !.settings = new_settings,
                                       !.applied = work.applied,
                                       !.project_path = work.project_path,
                                       !.warnings = work.warnings]
    /\ pc' = "collect"
    /\ UNCHANGED <<stage, metadata, file_list, odm_overrides, working_space, cwd_dirs, params,
                   check_return, result, calls, fs, out, raised>>
    /\ UNCHANGED <<scan, pipe, exif>>

\* Opendronemap.perform_process, lines 269-285: the manifest and the result.
perform_process_collect ==
    /\ pc = "collect"
    /\ result' = perform_process_result(collect_files(params.working_folder, engine.disk),
                                        engine.return_value.v)
    /\ pc' = "handle_result"
    /\ UNCHANGED <<stage, metadata, file_list, odm_overrides, working_space, cwd_dirs, params,
                   check_return, calls, fs, engine, out, raised>>
    /\ UNCHANGED <<scan, pipe, exif>>

\* os.path.join(args.working_space, 'result.json'), or None
ResultPath(ws) == IF ws = "given" THEN "ws/result.json" ELSE NoneV

\* Whether the folder args.working_space is there when the result is
\* written: it is once images/ has been made in it.  handle_result asks
\* (line 202) only when it is about to write.
WorkingSpaceExists(result_types, ws, folder) ==
    IF handle_result(result_types, ResultPath(ws), TRUE, EmptyDict).written # <<>>
       /\ ~folder.images_dir
    THEN BOOLEAN ELSE {TRUE}

\* do_work, lines 276-282: the result goes to handle_result.
do_work_result ==
    /\ pc = "handle_result"
    /\ working_space' \in (IF working_space = "unset" THEN {"none", "given"} ELSE {working_space})
    /\ \E result_types \in ResultTypes :
       \E dir_exists \in WorkingSpaceExists(result_types, working_space', fs) :
          out' = handle_result(result_types, ResultPath(working_space'), dir_exists, result)
    /\ pc' = "done"
    /\ UNCHANGED <<stage, metadata, file_list, odm_overrides, cwd_dirs, params,
                   check_return, result, calls, fs, engine, raised>>
    /\ UNCHANGED <<scan, pipe, exif>>

Next ==
    \/ do_work_metadata
    \/ perform_processing_params
    \/ perform_processing_check
    \/ perform_processing_process
    \/ perform_process_prepare
    \/ run_stitch_launch
    \/ run_stitch_wait
    \/ perform_process_collect
    \/ do_work_result

Spec == Init /\ [][Next]_vars

(***************************************************************************)
(* The file loop of get_transformer_params on its own: the metadata came   *)
(* without observationTimeStamp, check_list holds files that are kept, and *)
(* each step is one call of get_first_timestamp (line 278).                *)
(***************************************************************************)
InitStamps ==
    /\ pc = "get_params"
    /\ stage = ConcreteStage("transformer")
    /\ metadata = [arg |-> "given", kind |-> "array", doc |-> NoDoc]
    /\ file_list = <<>>
    /\ odm_overrides = "unset"
    /\ working_space = "unset"
    /\ cwd_dirs = {}
    /\ params = NoParams
    /\ check_return = NoReturn
    /\ result = EmptyDict
    /\ calls = [params |-> 1, check |-> 0, perform |-> 0]
    /\ fs = EmptyFolder
    /\ engine = NoEngine
    /\ out = NoOutput
    /\ raised = "none"
    /\ \E files \in SeqsUpTo(StampFiles, MaxScan) : scan = [NoScan EXCEPT !.files = files]
    /\ pipe = NoPipe
    /\ exif = NoExif

\* get_transformer_params, lines 272-278, one iteration: the call of
\* get_first_timestamp with the next file and the working timestamp.  An
\* exception that left the call would end the loop.
get_first_timestamp_step ==
    /\ scan.exc = "none"
    /\ scan.pos < Len(scan.files)
    /\ LET outcome == first_timestamp_outcome(scan.files[scan.pos + 1], scan.working_timestamp)
       IN  scan' = [scan EXCEPT
                        !.pos = @ + 1,
                        !.before = scan.working_timestamp,
                        !.working_timestamp = IF outcome.exc = "none" THEN outcome.value ELSE @,
                        !.exc = outcome.exc]
    /\ UNCHANGED <<run_vars, pipe, exif>>

NextStamps == get_first_timestamp_step

SpecStamps == InitStamps /\ [][NextStamps]_vars

(***************************************************************************)
(* run_stitch of odm.py on its own, from subprocess.Popen to the return:   *)
(* the worker writes its lines into the pipe and ends; run_stitch reads    *)
(* the pipe in consume_proc_output, polls the worker and sleeps.           *)
(***************************************************************************)
\* The lines of one worker, numbered as they are written.
Numbered(kinds) == [i \in DOMAIN kinds |-> [n |-> i, kind |-> kinds[i]]]

\* run_stitch, lines 186-192: the worker has been started, stdout and
\* stderr go to one pipe, return_value is -1.
InitPipe ==
    /\ pc = "wait"
    /\ stage = ConcreteStage("odm")
    /\ metadata = [arg |-> "unset", kind |-> "unset", doc |-> NoDoc]
    /\ file_list = <<>>
    /\ odm_overrides = "unset"
    /\ working_space = "unset"
    /\ cwd_dirs = {}
    /\ params = NoParams
    /\ check_return = NoReturn
    /\ result = EmptyDict
    /\ calls = [params |-> 0, check |-> 0, perform |-> 1]
    /\ fs = EmptyFolder
    /\ engine = [NoEngine EXCEPT !.launched = TRUE]
    /\ out = NoOutput
    /\ raised = "none"
    /\ scan = NoScan
    /\ exif = NoExif
    /\ \E kinds \in SeqsUpTo(LineKinds, MaxLines) :
          pipe = [NoPipe EXCEPT !.worker = "running", !.to_write = Numbered(kinds),
                                !.rpc = "loop", !.return_value = Some(-1)]

\* The worker writes its next line; the write blocks while the pipe is full.
worker_write ==
    /\ pipe.worker = "running"
    /\ pipe.to_write # <<>>
    /\ Len(pipe.buffer) < PipeCapacity
    /\ pipe' = [pipe EXCEPT !.to_write = Tail(@),
                            !.written = Append(@, Head(pipe.to_write)),
                            !.buffer = Append(@, Head(pipe.to_write))]
    /\ UNCHANGED <<run_vars, scan, exif>>

\* The worker ends after its last line: its end of the pipe is closed and
\* its exit status waits to be collected.
worker_exit ==
    /\ pipe.worker = "running"
    /\ pipe.to_write = <<>>
    /\ \E status \in ExitStatuses :
          pipe' = [pipe EXCEPT !.worker = "exited", !.status = status]
    /\ UNCHANGED <<run_vars, scan, exif>>

\* run_stitch, lines 196-197 and 202-206: the test of the loop, and the
\* return once proc.returncode is set.
run_stitch_loop ==
    /\ pipe.rpc = "loop"
    /\ IF pipe.returncode.some
       THEN pipe' = [pipe EXCEPT !.rpc = "returned",
                                 !.return_value = stitch_return_value(pipe.returncode.v)]
       ELSE pipe' = [pipe EXCEPT !.rpc = "readline"]
    /\ UNCHANGED <<run_vars, scan, exif>>

\* consume_proc_output, lines 147-159, one turn of its loop.  readline
\* waits for a line or for the end of the file.  A line is decoded and
\* logged; bytes that are no UTF-8 make decode raise UnicodeDecodeError,
\* which "except Exception" ends the function with; the end of the file
\* ends the function.
consume_proc_output ==
    /\ pipe.rpc = "readline"
    /\ pipe.buffer # <<>> \/ pipe.worker = "exited"
    /\ IF pipe.buffer = <<>>
       THEN pipe' = [pipe EXCEPT !.rpc = "poll"]
       ELSE IF Head(pipe.buffer).kind = "not_utf8"
       THEN pipe' = [pipe EXCEPT !.buffer = Tail(@), !.ignored = @ + 1, !.rpc = "poll"]
       ELSE pipe' = [pipe EXCEPT !.buffer = Tail(@), !.log = Append(@, Head(pipe.buffer))]
    /\ UNCHANGED <<run_vars, scan, exif>>

\* run_stitch, lines 198-201: proc.poll() collects the exit status of a
\* worker that has ended, then time.sleep(1).
run_stitch_poll ==
    /\ pipe.rpc = "poll"
    /\ pipe' = [pipe EXCEPT !.rpc = "loop",
                            !.returncode = IF pipe.worker = "exited"
                                           THEN Some(pipe.status) ELSE NoneInt]
    /\ UNCHANGED <<run_vars, scan, exif>>

NextPipe ==
    \/ worker_write
    \/ worker_exit
    \/ run_stitch_loop
    \/ consume_proc_output
    \/ run_stitch_poll

SpecPipe == InitPipe /\ [][NextPipe]_vars

\* run_stitch is a running thread: each of its steps is taken when it can
\* be.  Nothing is assumed of the worker.
SpecPipeFair ==
    /\ SpecPipe
    /\ WF_vars(run_stitch_loop)
    /\ WF_vars(consume_proc_output)
    /\ WF_vars(run_stitch_poll)

(***************************************************************************)
(* exif_tags_to_timestamp on its own: one "Exif" block, and the call.      *)
(***************************************************************************)
\* Values of the capture tag: absent, empty, blank as the EXIF standard
\* writes an unknown time, two capture times, and a text that is no time.
StampValues ==
    {NoneV, "", "    :  :     :  :  ", "2020:01:10 09:00:00", "2020:01:12 09:30:00", "yesterday"}

\* Values of an offset tag: absent, blank, east and west of Greenwich.
OffsetValues == {NoneV, "   :  ", "+01:00", "-01:00"}

InitTags ==
    /\ pc = "get_params"
    /\ stage = ConcreteStage("transformer")
    /\ metadata = [arg |-> "given", kind |-> "array", doc |-> NoDoc]
    /\ file_list = <<>>
    /\ odm_overrides = "unset"
    /\ working_space = "unset"
    /\ cwd_dirs = {}
    /\ params = NoParams
    /\ check_return = NoReturn
    /\ result = EmptyDict
    /\ calls = [params |-> 1, check |-> 0, perform |-> 0]
    /\ fs = EmptyFolder
    /\ engine = NoEngine
    /\ out = NoOutput
    /\ raised = "none"
    /\ scan = NoScan
    /\ pipe = NoPipe
    /\ \E stamp \in StampValues, original \in OffsetValues, general \in OffsetValues :
          exif = [NoExif EXCEPT
                    !.tags = [NoTags EXCEPT ![EXIF_ORIGINAL_TIMESTAMP] = stamp,
                                            ![EXIF_ORIGINAL_TIMESTAMP_OFFSET] = original,
                                            ![EXIF_OFFSET_TIME] = general]]

\* get_first_timestamp, line 136: the call of exif_tags_to_timestamp with
\* the "Exif" block of the file.
exif_tags_to_timestamp_call ==
    /\ ~exif.done
    /\ exif' = [exif EXCEPT !.done = TRUE,
                            !.text = exif_timestamp_text(exif.tags),
                            !.parsed = exif_tags_to_timestamp(exif.tags)]
    /\ UNCHANGED <<run_vars, scan, pipe>>

NextTags == exif_tags_to_timestamp_call

SpecTags == InitTags /\ [][NextTags]_vars

(***************************************************************************)
(* Properties                                                              *)
(***************************************************************************)
\* check_continue returned a negative code, in one of the three shapes.
CheckAborted ==
    /\ check_return.shape \in {"int", "tuple1", "tuple2"}
    /\ check_return.code < 0

\* The steps inside perform_process of odm.py.
InPerformProcess == pc \in {"prepare", "run_stitch", "wait", "collect"}

\* C1: when check_continue returned a negative code, as an int, as a tuple
\* of the code or as a tuple of the code and a message, perform_process is
\* not invoked in that run.
C1_AbortNeverProcesses ==
    CheckAborted => (calls.perform = 0 /\ ~InPerformProcess)

\* C1, witness: a run that ended after check_continue returned a bare
\* negative int, for a stage that defines perform_process.
C1_Witness ==
    /\ pc = "done"
    /\ stage.has_perform
    /\ check_return.shape = "int"
    /\ check_return.code < 0

\* Parameter derivation did not stop the run: the parameters were returned
\* and accepted, or the instance has no get_transformer_params.
ParamsSucceeded ==
    \/ params.status = "skipped"
    \/ params.status = "returned" /\ ~params_rejected(params)

\* The feasibility check did not abort: the stage has no check_continue,
\* or its check_continue returned something other than a negative code.
CheckProceeds ==
    \/ ~stage.has_check
    \/ check_return.shape \notin {"none", "raise"} /\ ~CheckAborted

\* The run is past line 181 of perform_processing on the proceed path.
PastProcess ==
    /\ pc \notin {"start", "get_params", "check", "process"}
    /\ ParamsSucceeded
    /\ CheckProceeds

\* perform_process is called at most once, never before check_continue has
\* returned, and a stage without check_continue is never asked.
ProcessOrder ==
    /\ calls.perform <= 1
    /\ calls.check <= 1
    /\ (calls.perform = 1 /\ stage.has_check) => calls.check = 1 /\ check_return.shape # "none"
    /\ ~stage.has_check => calls.check = 0 /\ check_return = NoReturn

\* C2 as stated: when parameter derivation succeeds and the check does not
\* abort, perform_process is invoked exactly once, after the check.
C2_Original ==
    /\ ProcessOrder
    /\ PastProcess => calls.perform = 1

\* C2, amended: the same for a stage module that defines perform_process;
\* for one that does not, nothing is invoked and the result is error -102.
C2_ProceedProcessesOnce ==
    /\ ProcessOrder
    /\ (PastProcess /\ stage.has_perform) => calls.perform = 1
    /\ (PastProcess /\ ~stage.has_perform) =>
            /\ calls.perform = 0
            /\ Has(result, "error")
            /\ result.code = -102

\* C2, witness: a finished run of a stage without check_continue whose
\* perform_process was invoked, and one whose check returned a positive code.
C2_Witness ==
    /\ pc = "done"
    /\ calls.perform = 1
    /\ ~stage.has_check

C2_WitnessPositive ==
    /\ pc = "done"
    /\ calls.perform = 1
    /\ check_return.shape = "int"
    /\ check_return.code > 0

\* The result is a structured error: {error, code}.
IsErrorResult(res) == Has(res, "error") /\ Has(res, "code")

\* A fatal error of one of the listed kinds was detected in this run:
\* metadata missing, unreadable or malformed; override file missing; no
\* image file; parameter derivation reported a failure; a symbolic link
\* name was taken; the worker process could not be started.
FatalErrorDetected ==
    \/ metadata.arg \in {"none", "missing"}
    \/ metadata.kind \in {"unreadable", "malformed", "null"}
    \/ stage.module # "generic" /\ odm_overrides = "missing"
    \/ stage.module # "generic" /\ check_return.code = -1001
    \/ params.status = "returned" /\ params_rejected(params)
    \/ fs.exc = "FileExistsError"
    \/ raised = "OSError"

\* C3: every fatal error ends the run with one {error, code} result that
\* handle_result received, and no exception leaves do_work.
C3_FatalErrorsReported ==
    FatalErrorDetected =>
        /\ pc # "raised"
        /\ ~engine.exited
        /\ pc = "done" => IsErrorResult(result) /\ out.handled = 1

\* C4: after check_continue returned (code, message) with code < 0, the
\* result of perform_processing has that code and that message as 'error'.
C4_AbortMessageIsError ==
    (/\ pc \in {"process", "handle_result", "done"}
     /\ check_return.shape = "tuple2"
     /\ check_return.code < 0
     /\ Truthy(check_return.message))
    => /\ IsErrorResult(result)
       /\ result.code = check_return.code
       /\ result.error = check_return.message

\* The manifest entry of the i-th row of RESULT_FILES under the project
\* path "ws".
ManifestEntry(i) ==
    [path |-> "ws/" \o RESULT_FILES[i].folder \o "/" \o RESULT_FILES[i].name,
     key |-> RESULT_FILES[i].type]

\* C5: the result of odm.py's perform_process carries the exit status of
\* the worker process as its code, whatever the status, together with an
\* entry for every result file the worker left on disk.
C5_ExitStatusVerbatim ==
    (stage.module = "odm" /\ pc \in {"handle_result", "done"} /\ engine.exited)
    => /\ Has(result, "code")
       /\ result.code = engine.status
       /\ Len(result.manifest) = Cardinality(engine.disk)
       /\ \A i \in engine.disk : \E j \in DOMAIN result.manifest :
                result.manifest[j] = ManifestEntry(i)

\* C5, witness: the worker failed and left result files behind.
C5_Witness ==
    /\ pc = "done"
    /\ stage.module = "odm"
    /\ engine.exited
    /\ engine.status < 0
    /\ engine.disk # {}
    /\ result.manifest # <<>>

\* C6: a result that reaches handle_result has a 'code' key and exactly one
\* of the keys 'error' and 'files'.
C6_DiscriminatedResult ==
    pc \in {"handle_result", "done"}
    => /\ Has(result, "code")
       /\ Has(result, "error") # Has(result, "files")

\* A recognized image file: the lower-case extension is .tif, .tiff or .jpg.
RecognizedImage(path) == Lower(SplitExt(path)) \in {".tif", ".tiff", ".jpg"}

\* The list holds a recognized image file, or a folder with a recognized
\* image file as an immediate child.
HasRecognizedImage(files) ==
    \E i \in DOMAIN files :
        IF files[i] = "d"
        THEN \E k \in DOMAIN ListDir(files[i]) :
                /\ ~ChildIsDir(files[i], ListDir(files[i])[k])
                /\ RecognizedImage(ListDir(files[i])[k])
        ELSE RecognizedImage(files[i])

\* C7: with the override file present or not given, check_continue of
\* either generation returns 0 when the file list holds a recognized image
\* and (-1001, message naming the extensions) when it holds none.
C7_ImageDecidesCheck ==
    (/\ stage.module \in {"odm", "transformer"}
     /\ calls.check = 1
     /\ odm_overrides \in {"none", "exists"})
    => IF HasRecognizedImage(params.list_files)
       THEN check_return.shape \in {"int", "tuple1", "tuple2"} /\ check_return.code = 0
       ELSE /\ check_return.shape = "tuple2"
            /\ check_return.code = -1001
            /\ check_return.message \in
                    {NoImageMessage(KNOWN_IMAGE_FILE_EXTS),
                     NoImageMessage(transformer_KNOWN_IMAGE_FILE_EXTS)}

\* C8: when the override path is given and missing, check_continue returns
\* -1000 whatever the file list holds, and the run creates no images/
\* folder, creates no link and starts no worker process.
C8_MissingOverridesStopBeforeStaging ==
    (stage.module \in {"odm", "transformer"} /\ odm_overrides = "missing")
    => /\ check_return.shape = "tuple2"
       /\ check_return.code = -1000
       /\ calls.perform = 0
       /\ fs = EmptyFolder
       /\ ~engine.launched
       /\ ~InPerformProcess

\* C8, witness: a finished odm.py run with a missing override file and an
\* image in the file list.
C8_Witness ==
    /\ pc = "done"
    /\ stage.module = "odm"
    /\ odm_overrides = "missing"
    /\ \E i \in DOMAIN params.list_files : RecognizedImage(params.list_files[i])

\* C9: when the metadata file does not hold a JSON object, do_work ends
\* with the fixed error result and invokes neither get_transformer_params
\* nor check_continue nor perform_process.
C9_NonObjectMetadataFailsFast ==
    (metadata.arg = "given" /\ metadata.kind # "object")
    => /\ pc \in {"handle_result", "done"}
       /\ IsErrorResult(result)
       /\ result.code = -3
       /\ calls = [params |-> 0, check |-> 0, perform |-> 0]

\* The object the parameters are read from: the one under 'content' when
\* the metadata has that key, the metadata itself otherwise.
ParsedObject == IF metadata.doc.nested THEN metadata.doc.content ELSE metadata.doc.top

\* C10: for metadata that is a JSON object, get_transformer_params returns
\* the object's season and studyName as season and experiment, its
\* observationTimeStamp as timestamp when it has one, and the value under
\* the transformer name as the stage's metadata.
C10_ParamsFromObject ==
    (stage.module = "transformer" /\ metadata.kind = "object" /\ calls.params = 1)
    => /\ params.status = "returned"
       /\ params.season = Value(ParsedObject, "season")
       /\ params.experiment = Value(ParsedObject, "studyName")
       /\ params.transformer_md = Value(ParsedObject, TRANSFORMER_NAME)
       /\ ParsedObject.observationTimeStamp # Absent
            => params.timestamp = ParsedObject.observationTimeStamp

\* The observationTimeStamp the caller's metadata came with, or None.
CallerTimestamp == Value(ParsedObject, "observationTimeStamp")

\* C11: when the caller's metadata carries observationTimeStamp,
\* get_transformer_params calls get_first_timestamp for no file, and the
\* timestamp it returns and the observationTimeStamp of the metadata it
\* returns are the caller's value, whatever the file list.
C11_CallerTimestampKept ==
    (/\ stage.module = "transformer"
     /\ calls.params = 1
     /\ metadata.kind \in {"object", "array"}
     /\ CallerTimestamp # NoneV)
    => /\ params.consulted = <<>>
       /\ params.status = "returned" =>
            /\ params.timestamp = CallerTimestamp
            /\ Value(params.full_md, "observationTimeStamp") = CallerTimestamp

\* C11, witness: the parameters were returned for metadata with a
\* timestamp and a file list with two images that carry capture times.
C11_Witness ==
    /\ stage.module = "transformer"
    /\ params.status = "returned"
    /\ CallerTimestamp # NoneV
    /\ params.list_files = <<"a/x.jpg", "b/x.jpg">>

\* The valid capture timestamps of the files of StampFiles, as the tags
\* state them: the isoformat text and the instant in minutes (UTC for a
\* timestamp with an offset, wall clock for one without).
Captures ==
    {[file |-> "a/x.jpg", iso |-> "2020-01-15T10:00:00", aware |-> FALSE, instant |-> 20760],
     [file |-> "b/x.jpg", iso |-> "2020-01-10T09:00:00", aware |-> FALSE, instant |-> 13500],
     [file |-> "e/plus.jpg", iso |-> "2020-01-12T09:30:00+01:00", aware |-> TRUE, instant |-> 16350],
     [file |-> "e/late.jpg", iso |-> "2020-02-01T00:00:00+01:00", aware |-> TRUE, instant |-> 44580],
     [file |-> "e/minus.jpg", iso |-> "2020-01-12T09:00:00-01:00", aware |-> TRUE, instant |-> 16440]}

\* The capture timestamps found in a list of files.
CapturesIn(files) == {c \in Captures : \E i \in DOMAIN files : files[i] = c.file}

\* The capture timestamps of the list can be ordered: all of them come
\* with an offset, or none does.
Comparable(files) == \A c, d \in CapturesIn(files) : c.aware = d.aware

\* The earliest capture timestamp of the list, None when it has none.
EarliestCapture(files) ==
    IF CapturesIn(files) = {} THEN NoneV
    ELSE (CHOOSE c \in CapturesIn(files) :
            \A d \in CapturesIn(files) : c.instant <= d.instant).iso

\* The running value did not move to a later instant in the last step.
NotLater(before, after) ==
    \A b, a \in Captures :
        (b.iso = before /\ a.iso = after /\ a.aware = b.aware) => a.instant <= b.instant

\* C12: without a caller timestamp, once the loop has been through the
\* whole list the working timestamp is the earliest capture timestamp of
\* the files, with or without UTC offset, positive or negative, in
\* whatever order the files come; and no step moves the working timestamp
\* to a later instant.
C12_EarliestCaptureResolved ==
    /\ (scan.pos = Len(scan.files) /\ Comparable(scan.files))
            => scan.working_timestamp = EarliestCapture(scan.files)
    /\ scan.pos > 0 => NotLater(scan.before, scan.working_timestamp)

\* C12 without the files whose offset is negative: the loop resolves the
\* earliest capture timestamp of the others.
C12_HoldsWithoutNegativeOffset ==
    (/\ scan.pos = Len(scan.files)
     /\ Comparable(scan.files)
     /\ \A i \in DOMAIN scan.files : scan.files[i] # "e/minus.jpg")
    => scan.working_timestamp = EarliestCapture(scan.files)

\* The files in which no capture timestamp is found: no image at all, no
\* embedded metadata block, no capture tag, a blank capture tag, a capture
\* tag or an offset that fromisoformat does not convert.
NoDiscovery(file) ==
    file \in {"a/gcp_list.txt", "d/p.tiff", "a/y.TIF", "e/blank.jpg", "e/bad.jpg", "e/minus.jpg"}

\* C13: no call of get_first_timestamp raises, and a call with a file in
\* which no capture timestamp is found returns the timestamp it was given,
\* so that the loop goes on with the next file.
C13_NoTimestampNoFailure ==
    /\ scan.exc = "none"
    /\ (scan.pos > 0 /\ NoDiscovery(scan.files[scan.pos]))
            => scan.working_timestamp = scan.before

\* C13, witness: the loop went through an image with a capture time, an
\* image whose capture tag holds no date and an image without embedded
\* metadata, and kept the first one's time.
C13_Witness ==
    /\ scan.files = <<"a/x.jpg", "e/bad.jpg", "d/p.tiff">>
    /\ scan.pos = 3
    /\ scan.before = "2020-01-15T10:00:00"
    /\ scan.working_timestamp = "2020-01-15T10:00:00"

\* The paths of the model whose extension is .tif, .tiff or .jpg in some
\* spelling of upper and lower case.
ImageExtension(path) == path \in {"a/x.jpg", "b/x.jpg", "-v.jpg", "a/y.TIF", "a/z.Tiff"}

\* C14: when odm.py's check_continue has looked at a list of one path that
\* is no directory, check_for_image_file was true of it, and 0 was
\* returned, exactly when the extension of the path is .tif, .tiff or
\* .jpg in any case.
C14_ImageByExtension ==
    (/\ stage.module = "odm"
     /\ calls.check = 1
     /\ odm_overrides \in {"none", "exists"}
     /\ Len(params.list_files) = 1
     /\ ~isdir(params.list_files[1], cwd_dirs))
    => /\ check_for_image_file(params.list_files[1], cwd_dirs) <=>
                ImageExtension(params.list_files[1])
       /\ check_return = ReturnInt(0) <=> ImageExtension(params.list_files[1])

\* C14, witness: the check accepted a list whose only file has the
\* extension .Tiff.
C14_Witness ==
    /\ stage.module = "odm"
    /\ calls.check = 1
    /\ params.list_files = <<"a/z.Tiff">>
    /\ check_return = ReturnInt(0)

\* A child of a listed folder that is itself a folder, as a path.
SubdirectoryPaths ==
    {Join("d", ListDir("d")[k]) :
        k \in {j \in DOMAIN ListDir("d") : ChildIsDir("d", ListDir("d")[j])}}

\* C15: of a folder given as input only the immediate children that are
\* files are classified: a child that is a folder is linked neither as an
\* image nor as the control point file by prepare_project_folder and is
\* not among the files get_acceptable_files returns, whatever it is called
\* and whatever the current directory holds.
C15_SubdirectoriesNotClassified ==
    /\ \A l \in fs.images \cup fs.root : l.target \notin SubdirectoryPaths
    /\ \A i \in DOMAIN params.list_files :
            stage.module = "transformer" => params.list_files[i] \notin SubdirectoryPaths

\* prepare_project_folder has run in this run of odm.py.
Staged == stage.module = "odm" /\ fs.images_dir

\* The positions of the file list that bring a file named gcp_list.txt:
\* the file a/gcp_list.txt, and folder d, which holds one.
GcpPositions ==
    {i \in DOMAIN params.list_files : params.list_files[i] \in {"a/gcp_list.txt", "d"}}

\* The file named gcp_list.txt met last when the list is gone through.
LastGcp ==
    LET last == CHOOSE i \in GcpPositions : \A j \in GcpPositions : j <= i
    IN  IF params.list_files[last] = "d" THEN "d/gcp_list.txt" ELSE params.list_files[last]

\* The links staging has added directly under the working folder.
NewRootLinks == fs.root \ fs.old_root

\* After a staging that ended without error, the one link added under the
\* working folder is that of the file named gcp_list.txt that was met
\* last, and there is none when the list brings no such file.
ControlPointKept ==
    (Staged /\ fs.exc = "none")
    => /\ Cardinality(NewRootLinks) <= 1
       /\ NewRootLinks = IF GcpPositions = {} THEN {}
                         ELSE {[name |-> "gcp_list.txt", target |-> LastGcp]}

\* C16: prepare_project_folder takes a path for the control point file
\* exactly when its base name is gcp_list.txt; it keeps at most one and
\* makes at most one link for it, that of the candidate met last.
C16_LastControlPointFileKept == ControlPointKept

\* C16 when the current directory holds no folder named gcp_list.txt.
C16_HoldsInOtherDirectories == "gcp_list.txt" \notin cwd_dirs => ControlPointKept

\* The image files and the control point file of the list, as
\* prepare_project_folder classifies them.
Classified == classify(params.list_files, cwd_dirs, [file_list |-> <<>>, gcp_file |-> NoneV])

\* A link name staging needs is taken: by a link of an earlier staging, or
\* by an image of the same list that was linked before.
LinkCollision ==
    \/ \E i \in DOMAIN Classified.file_list :
            \/ Taken(fs.old_images, BaseName(Classified.file_list[i]))
            \/ \E j \in 1..(i - 1) :
                    BaseName(Classified.file_list[j]) = BaseName(Classified.file_list[i])
    \/ Classified.gcp_file # NoneV /\ Taken(fs.old_root, BaseName(Classified.gcp_file))

\* C17: staging links every classified image under images/ by its base
\* name and the control point file directly under the working folder;
\* when a link name is taken staging ends with FileExistsError, and every
\* link that existed keeps its target.
C17_LinksNeverOverwritten ==
    Staged =>
        /\ fs.old_images \subseteq fs.images
        /\ fs.old_root \subseteq fs.root
        /\ \A l, m \in fs.images : l.name = m.name => l = m
        /\ \A l, m \in fs.root : l.name = m.name => l = m
        /\ IF LinkCollision
           THEN fs.exc = "FileExistsError" /\ raised = "FileExistsError"
           ELSE /\ fs.exc = "none"
                /\ fs.images = fs.old_images \cup
                        {[name |-> BaseName(Classified.file_list[i]),
                          target |-> Classified.file_list[i]] : i \in DOMAIN Classified.file_list}
                /\ fs.root = fs.old_root \cup
                        (IF Classified.gcp_file = NoneV THEN {}
                         ELSE {[name |-> BaseName(Classified.gcp_file),
                                target |-> Classified.gcp_file]})

\* C17, witness: two inputs share the base name x.jpg; staging failed and
\* images/x.jpg still points to the first one.
C17_Witness ==
    /\ Staged
    /\ params.list_files = <<"a/x.jpg", "b/x.jpg">>
    /\ fs.old_images = {}
    /\ fs.exc = "FileExistsError"
    /\ fs.images = {[name |-> "x.jpg", target |-> "a/x.jpg"]}

\* C17, a second case: staging was repeated on a working folder that held
\* the links of an earlier run.
C17_WitnessRepeated ==
    /\ Staged
    /\ fs.old_images # {}
    /\ params.list_files = <<"a/x.jpg">>
    /\ fs.exc = "FileExistsError"

\* The j-th row of RESULT_FILES, in the order of the table, whose file the
\* worker left on disk.
NthOnDisk(j) == CHOOSE i \in engine.disk : Cardinality({k \in engine.disk : k < i}) = j - 1

\* C18: the manifest perform_process of odm.py returns lists, in the order
\* of RESULT_FILES, the rows whose file exists under the project path once
\* the worker has ended, each with its path and the type of the table, and
\* nothing else; when no file exists the manifest is empty and no error is
\* reported.
C18_ManifestFollowsTable ==
    (stage.module = "odm" /\ pc \in {"handle_result", "done"} /\ engine.exited)
    => /\ Len(result.manifest) = Cardinality(engine.disk)
       /\ \A j \in DOMAIN result.manifest : result.manifest[j] = ManifestEntry(NthOnDisk(j))
       /\ ~Has(result, "error")
       /\ raised = "none"

\* C18, witness: the worker left two files of odm_georeferencing and both
\* files of odm_dem, and a run that left none returned an empty manifest.
C18_Witness ==
    /\ stage.module = "odm"
    /\ pc = "done"
    /\ engine.disk = {2, 3, 11, 12}
    /\ Len(result.manifest) = 4
    /\ result.manifest[3].key = "dsm"

C18_WitnessEmpty ==
    /\ stage.module = "odm"
    /\ pc = "done"
    /\ engine.exited
    /\ engine.disk = {}
    /\ result.manifest = <<>>

\* The values of --result that name the standard output, and those that
\* name the result file.
NamesPrint(result_types) == result_types \in {"all", "print", "print, file"}
NamesFile(result_types) == result_types \in {"all", "print, file", "bogus,file"}

\* C19: handle_result returns the result it was given; it prints the
\* result exactly when --result names print or all; it writes the result
\* file exactly when --result names file or all and a path is given,
\* making the folder of the path when it is missing; without a path,
\* without a value of --result or with unknown names only it writes
\* nothing, and it never fails.
C19_ResultDestinations ==
    pc = "done" =>
        /\ out.handled = 1
        /\ out.returned = result
        /\ out.printed = IF NamesPrint(out.result_types) THEN <<result>> ELSE <<>>
        /\ out.written = IF NamesFile(out.result_types) /\ working_space = "given"
                         THEN <<result>> ELSE <<>>
        /\ out.made_dirs <=> (out.written # <<>> /\ ~out.dir_existed)
        /\ (out.result_types \in {NoneV, "none"}) => (out.printed = <<>> /\ out.written = <<>>)
        /\ raised = "none"

\* C19, witness: --result "print, file" with a working space whose folder
\* was missing: the result was printed and written.
C19_Witness ==
    /\ pc = "done"
    /\ out.result_types = "print, file"
    /\ out.printed = <<result>>
    /\ out.written = <<result>>
    /\ out.made_dirs

\* The override file of this run sets the protected name project_path,
\* and the worker has applied the file.
ProtectedKeyGiven == stage.module = "odm" /\ engine.exited /\ "project_path" \in engine.settings

\* Every other name was applied, and the engine ran with the staged
\* project path.
ProjectPathProtected ==
    /\ engine.applied = engine.settings \ {"project_path"}
    /\ engine.project_path = params.working_folder

\* C20: when the override file sets project_path, the worker applies every
\* other name, runs the engine with the staged project path, writes a
\* warning for the name it passed over, and the run does not fail for it.
C20_ProtectedOverrideSkippedWithWarning ==
    ProtectedKeyGiven =>
        /\ ProjectPathProtected
        /\ engine.warnings # <<>>
        /\ pc # "raised"

\* C20 without the warning: the project path is protected in worker.py.
C20_ProjectPathKept == ProtectedKeyGiven => (ProjectPathProtected /\ pc # "raised")

\* C20 for get_merge_options of transformer.py, whatever the override file
\* sets: the other names are applied, project_path is the staged folder,
\* and a warning is written exactly when project_path was passed over.
C20_MergeOptionsWarns ==
    \A new_settings \in OverrideSettings :
        LET merged == get_merge_options(OverridesPath, "ws", new_settings)
        IN  /\ merged.applied = new_settings \ {"project_path"}
            /\ merged.project_path = "ws"
            /\ merged.warnings # <<>> <=> "project_path" \in new_settings

\* run_stitch has returned to perform_process.
Returned == pipe.rpc = "returned"

\* The lines of the worker that can be decoded.
IsText(line) == line.kind = "text"

\* C21: when run_stitch returns, every line the worker wrote has been
\* read from the pipe, and every one of them that can be decoded has been
\* handed to the log.
C21_OutputLoggedBeforeReturn ==
    Returned => /\ pipe.to_write = <<>>
                /\ pipe.buffer = <<>>
                /\ pipe.log = SelectSeq(pipe.written, IsText)

\* C21 for a worker whose output is UTF-8 throughout.
C21_HoldsForDecodableOutput ==
    (Returned /\ \A i \in DOMAIN pipe.written : IsText(pipe.written[i]))
        => (pipe.to_write = <<>> /\ pipe.buffer = <<>> /\ pipe.log = pipe.written)

\* C21, first part: run_stitch returns only after the worker has ended,
\* and with the worker's exit status.
C21_ReturnsAfterExit ==
    Returned => (pipe.worker = "exited" /\ pipe.return_value = Some(pipe.status))

\* C21, second part: if the worker ends, run_stitch returns.
C21_EventuallyReturns == <>(pipe.worker = "exited") => <>Returned

\* C21, second part: a worker held by a full pipe is let go, since
\* run_stitch reads from the pipe.
C21_FullPipeDrained ==
    (pipe.worker = "running" /\ pipe.to_write # <<>> /\ Len(pipe.buffer) = PipeCapacity)
        ~> (Len(pipe.buffer) < PipeCapacity)

\* A state of the run C21 fails in: run_stitch returned after a line that
\* is no UTF-8, with a line of the worker still in the pipe.
C21_LinesLeftInPipe == Returned /\ pipe.ignored > 0 /\ pipe.buffer # <<>>

\* The capture tag of the block holds a value.
CaptureTagPresent == Truthy(convert_and_clean_tag(exif.tags[EXIF_ORIGINAL_TIMESTAMP]))

\* The offset the block states for the capture: the one bound to the
\* capture when the block has it, otherwise the general one, otherwise
\* none.
StatedOffset ==
    LET original == convert_and_clean_tag(exif.tags[EXIF_ORIGINAL_TIMESTAMP_OFFSET])
        general == convert_and_clean_tag(exif.tags[EXIF_OFFSET_TIME])
    IN  IF Truthy(original) THEN original ELSE general

\* The capture timestamp followed by the stated offset without its colon.
StampWithOffset ==
    IF Truthy(StatedOffset)
    THEN exif.tags[EXIF_ORIGINAL_TIMESTAMP] \o StripColons(StatedOffset)
    ELSE exif.tags[EXIF_ORIGINAL_TIMESTAMP]

\* C22: when the capture tag is present, exif_tags_to_timestamp parses
\* the capture timestamp followed by the offset of the original-offset tag
\* when that tag holds one, otherwise by the offset of the general offset
\* tag when that tag holds one, with the colon taken out, and the capture
\* timestamp alone when neither tag holds an offset.
C22_OffsetPreference ==
    (exif.done /\ CaptureTagPresent)
        => (exif.text = StampWithOffset /\ exif.parsed = fromisoformat(StampWithOffset))

\* C22 for the blocks without a general offset tag.
C22_HoldsWithoutGeneralTag ==
    (exif.done /\ CaptureTagPresent
        /\ ~Truthy(convert_and_clean_tag(exif.tags[EXIF_OFFSET_TIME])))
        => (exif.text = StampWithOffset /\ exif.parsed = fromisoformat(StampWithOffset))

\* A state C22 fails in: the block has a capture time and the general
\* offset tag only, and the capture time was parsed without an offset.
C22_GeneralOffsetIgnored ==
    /\ exif.done
    /\ exif.tags[EXIF_ORIGINAL_TIMESTAMP] = "2020:01:12 09:30:00"
    /\ exif.tags[EXIF_ORIGINAL_TIMESTAMP_OFFSET] = NoneV
    /\ exif.tags[EXIF_OFFSET_TIME] = "+01:00"
    /\ exif.text = "2020:01:12 09:30:00"
    /\ exif.parsed = Datetime(16410, FALSE, 0)

\* An override path was given to this run of odm.py.
OverrideSupplied == Truthy(OverridePath(odm_overrides))

\* What C23 says of the worker's environment and of the worker.
WorkerEnvironmentAsSupplied ==
    /\ engine.ODM_PROJECT = params.working_folder
    /\ Truthy(engine.ODM_SETTINGS) <=> OverrideSupplied
    /\ (engine.exited /\ ~OverrideSupplied) => engine.applied = {}

\* C23: once run_stitch of odm.py has started the worker, the worker's
\* environment binds ODM_PROJECT to the staged project path and binds
\* ODM_SETTINGS exactly when an override path was given to the run,
\* whatever the environment of the caller holds; without an override path
\* the worker applies no overrides.
C23_WorkerEnvironment == engine.launched => WorkerEnvironmentAsSupplied

\* C23 for a caller whose environment holds no ODM_SETTINGS.
C23_HoldsInCleanEnvironment ==
    (engine.launched /\ ~Truthy(engine.environ.ODM_SETTINGS)) => WorkerEnvironmentAsSupplied

\* C23, first part: ODM_PROJECT is the staged project path whatever the
\* caller's environment holds, and an override path that is given is the
\* one the worker reads.
C23_ProjectPathBound ==
    engine.launched =>
        /\ engine.ODM_PROJECT = params.working_folder
        /\ OverrideSupplied => engine.ODM_SETTINGS = OverridePath(odm_overrides)

\* A state C23 fails in: no override path was given, the caller's
\* environment names a settings file, and the worker applied it.
C23_CallerSettingsApplied ==
    /\ stage.module = "odm"
    /\ odm_overrides = "none"
    /\ engine.exited
    /\ engine.ODM_SETTINGS = "caller.yaml"
    /\ engine.applied = {"dsm"}

\* C24: in odm.py, on one file list and one state of the file system,
\* when check_continue returned 0 the first loop of prepare_project_folder
\* finds at least one image file, and when that loop finds an image file
\* check_continue did not return -1001; once prepare_project_folder has
\* staged the list, images/ holds a new link or an os.symlink was refused.
C24_FeasibilityAgreesWithStaging ==
    (stage.module = "odm" /\ calls.check = 1) =>
        /\ check_return = ReturnInt(0) => Classified.file_list # <<>>
        /\ Classified.file_list # <<>> => check_return.code # -1001
        /\ Staged => (fs.images \ fs.old_images # {} \/ fs.exc = "FileExistsError")

\* C24, witness: the list names a folder, check_continue found the image
\* in it and returned 0, and staging linked that image.
C24_Witness ==
    /\ stage.module = "odm"
    /\ params.list_files = <<"d">>
    /\ cwd_dirs = {}
    /\ check_return = ReturnInt(0)
    /\ Staged
    /\ fs.exc = "none"
    /\ \E l \in fs.images : l.target = "d/p.tiff"

\* C24, witness: a list without an image; check_continue returned -1001
\* and the loop of prepare_project_folder finds no image in it.
C24_WitnessNoImage ==
    /\ stage.module = "odm"
    /\ calls.check = 1
    /\ params.list_files = <<"a/gcp_list.txt", "a/notes.doc">>
    /\ check_return.code = -1001
    /\ Classified.file_list = <<>>

====
